---- MODULE Spec2Model ----
(***************************************************************************)
(* Aggregation-and-cache layer of hackerhome-v2: the BaseApiClient request *)
(* cache, the NewsService coordinator (registry, aggregate cache, error    *)
(* table, fan-out) and the useNews hook instances mounted by the Home page *)
(* and the Sidebar.                                                        *)
(*                                                                         *)
(* Time is Date.now() in milliseconds.  One step of the model is one       *)
(* macrotask of the event loop: a handler runs up to its first real        *)
(* suspension (an HTTP call in flight); promise continuations that are     *)
(* already resolvable run in the same step.                                *)
(***************************************************************************)
EXTENDS Integers, Sequences, FiniteSets, TLC

VARIABLES now, ticks, toggles, sources, cache, sourceErrors, clientCache,
          calls, hooks, timers, timerSeq, gets, rateLimitState, lastLookup

\* the interval timers of the page (setInterval / clearInterval)
timerVars == <<timers, timerSeq>>

\* BaseApiClient.get invocations followed attempt by attempt, and the
\* rate-limit counters of the clients
getVars == <<gets, rateLimitState>>

\* what the last direct getSourceError call was asked, found and returned
lookupVars == <<lastLookup>>

vars == <<now, ticks, toggles, sources, cache, sourceErrors, clientCache,
          calls, hooks, timerVars, getVars, lookupVars>>

-----------------------------------------------------------------------------
(* Bounds of the model *)

\* NewsService used directly, one call at a time, while time passes
MaxCalls == 2
MaxTicks == 3
\* NewsService used directly, overlapping calls at one instant
MaxOverlapCalls == 3
MaxPending == 2
MaxToggles == 3
\* through the hooks
MaxHookCalls == 3
MaxHookToggles == 1
\* timers created by setRefreshInterval, and refreshes while timers run
MaxTimers == 3
MaxTimerCalls == 3
\* BaseApiClient.get invocations followed attempt by attempt
MaxGets == 2
MaxPendingGets == 1
MaxLimiterGets == 2
MaxLimiterPending == 2
\* calls with the filters of the query checks
MaxQueryCalls == 2
\* direct calls and clock steps while error records age
MaxErrorCalls == 2
\* direct calls that name their sources, with toggles in between
MaxFetchCalls == 2
\* direct calls around updateSource calls of every kind
MaxToggleCalls == 2
MaxFrameCalls == 3
MaxDrops == 1
MaxFrameToggles == 1
MaxHourTicks == 3
\* direct calls answered with bodies of any shape
MaxPayloadCalls == 2

MaxOf(S) == CHOOSE n \in S : \A m \in S : m <= n

CallIds == 1..MaxOf({MaxCalls, MaxOverlapCalls, MaxHookCalls, MaxTimerCalls,
                     MaxQueryCalls, MaxPayloadCalls, MaxErrorCalls,
                     MaxFetchCalls, MaxToggleCalls, MaxFrameCalls})
GetIds == 1..MaxOf({MaxGets, MaxLimiterGets})

\* the sources the model's callers toggle
\* the providers switched off one after the other while calls overlap
ToggleOrder == <<"devto", "github", "hackernews">>
\* the provider made to fail while calls overlap
OverlapFailing == {"devto"}

-----------------------------------------------------------------------------
(* Program constants *)

cacheDuration == 5 * 60 * 1000
clientCacheDuration == 5 * 60 * 1000
errorMaxAge == 60 * 60 * 1000

\* the registry, in declaration order
SourceIds == <<"hackernews", "devto", "github">>
Sources == {SourceIds[i] : i \in 1..Len(SourceIds)}

\* the `sources` array of NewsService as constructed
InitialSources ==
    <<[id |-> "hackernews", name |-> "Hacker News", enabled |-> TRUE],
      [id |-> "devto", name |-> "DEV.to", enabled |-> TRUE],
      [id |-> "github", name |-> "GitHub", enabled |-> TRUE]>>

\* sources.filter(s => s.enabled).map(s => s.id)
enabledIds(registry) ==
    LET on == SelectSeq(registry, LAMBDA source : source.enabled)
    IN [i \in 1..Len(on) |-> on[i].id]

\* the registry lists `id` with its flag set
isEnabled(registry, id) ==
    \E i \in 1..Len(registry) : registry[i].id = id /\ registry[i].enabled

\* undefined / null / an omitted optional field, typed like the values they
\* stand in for (texts and id lists are sequences)
Absent == <<"<undefined>">>
Null == <<"<null>">>
Omitted == <<"<omitted>">>
AbsentTags == <<Absent>>

\* `source` field each client instance hands to its ApiErrors
HeadersObject == "<headers object>"
HackerNewsClientSource == "hackernews"
DevToClientSource == "devto"
GitHubClientSource == HeadersObject

clientSource(s) ==
    CASE s = "hackernews" -> HackerNewsClientSource
      [] s = "devto" -> DevToClientSource
      [] s = "github" -> GitHubClientSource

-----------------------------------------------------------------------------
(* Text: a string is a sequence of one-character strings *)

ToLowerChar(ch) ==
    CASE ch = "R" -> "r"
      [] ch = "G" -> "g"
      [] ch = "T" -> "t"
      [] OTHER -> ch

toLowerCase(str) == [i \in 1..Len(str) |-> ToLowerChar(str[i])]

\* String.prototype.includes
includes(hay, needle) ==
    \E i \in 0..(Len(hay) - Len(needle)) :
        \A j \in 1..Len(needle) : hay[i + j] = needle[j]

\* Array.prototype.includes on a sequence
arrayIncludes(arr, x) == \E i \in 1..Len(arr) : arr[i] = x

RECURSIVE SelectSeqBy(_, _)
\* Array.prototype.filter with the predicate given as the set of kept values
SelectSeqBy(seq, keep) ==
    IF seq = <<>> THEN <<>>
    ELSE IF Head(seq) \in keep
         THEN <<Head(seq)>> \o SelectSeqBy(Tail(seq), keep)
         ELSE SelectSeqBy(Tail(seq), keep)

-----------------------------------------------------------------------------
(* Upstream payloads (the JSON bodies the providers can answer with) *)

Rust == <<"R", "u", "s", "t">>
rust == <<"r", "u", "s", "t">>
go == <<"g", "o">>
Tips == <<"T", "i", "p", "s">>

hn1 == [id |-> 1, title |-> Rust, content |-> Absent, timestamp |-> 30]
hn2 == [id |-> 2, title |-> go, content |-> rust, timestamp |-> 10]
hn3 == [id |-> 3, title |-> Tips, content |-> Absent, timestamp |-> 10]
dev1 == [id |-> 1, title |-> Tips, description |-> rust,
         published_at |-> 20, tag_list |-> <<Rust>>]
gh1 == [id |-> 7, name |-> go, description |-> Null,
        created_at |-> 20, topics |-> <<go>>]

Payloads(s) ==
    CASE s = "hackernews" -> {<<hn2, hn1, hn3>>}
      [] s = "devto" -> {<<dev1>>}
      [] s = "github" -> {<<gh1>>}

-----------------------------------------------------------------------------
(* Normalizers: client-level, then NewsService-level *)

\* hackerNewsClient.getTopStories result, already in client-normalized shape
normalizeStory(item) ==
    [id |-> item.id, title |-> item.title, content |-> item.content,
     timestamp |-> item.timestamp, source |-> "hackernews"]

normalizeArticle(article) ==
    [id |-> article.id, title |-> article.title,
     description |-> article.description,
     timestamp |-> article.published_at,
     tags |-> article.tag_list, source |-> "devto"]

normalizeRepository(repo) ==
    [id |-> repo.id, name |-> repo.name, description |-> repo.description,
     timestamp |-> repo.created_at, topics |-> repo.topics,
     source |-> "github"]

normalizeHackerNewsItems(items) ==
    [i \in 1..Len(items) |->
        [id |-> items[i].id, title |-> items[i].title,
         description |-> Absent, content |-> items[i].content,
         timestamp |-> items[i].timestamp, tags |-> AbsentTags,
         source |-> items[i].source]]

\* a map that stops after the first record
normalizeFirstArticle(articles) ==
    [i \in 1..(IF Len(articles) > 0 THEN 1 ELSE 0) |->
        [id |-> articles[i].id, title |-> articles[i].title,
         description |-> articles[i].description, content |-> Absent,
         timestamp |-> articles[i].timestamp, tags |-> articles[i].tags,
         source |-> articles[i].source]]

normalizeDevToArticles(articles) ==
    [i \in 1..Len(articles) |->
        [id |-> articles[i].id, title |-> articles[i].title,
         description |-> articles[i].description, content |-> Absent,
         timestamp |-> articles[i].timestamp, tags |-> articles[i].tags,
         source |-> articles[i].source]]

normalizeGitHubRepositories(repositories) ==
    [i \in 1..Len(repositories) |->
        [id |-> repositories[i].id, title |-> repositories[i].name,
         description |-> IF repositories[i].description = Null
                         THEN <<>> ELSE repositories[i].description,
         content |-> Absent,
         timestamp |-> repositories[i].timestamp,
         tags |-> repositories[i].topics,
         source |-> repositories[i].source]]

\* what getHackerNews / getDevToArticles / getGitHubRepositories resolve with
\* for a response body `data`
ItemsOf(s, data) ==
    CASE s = "hackernews" ->
            normalizeHackerNewsItems([i \in 1..Len(data) |-> normalizeStory(data[i])])
      [] s = "devto" ->
            normalizeDevToArticles([i \in 1..Len(data) |-> normalizeArticle(data[i])])
      [] s = "github" ->
            normalizeGitHubRepositories([i \in 1..Len(data) |-> normalizeRepository(data[i])])

-----------------------------------------------------------------------------
(* Finite maps (Map objects) *)

EmptyMap == [k \in {} |-> TRUE]

MapSet(m, k, v) == [x \in DOMAIN m \cup {k} |-> IF x = k THEN v ELSE m[x]]

MapDelete(m, k) == [x \in DOMAIN m \ {k} |-> m[x]]

-----------------------------------------------------------------------------
(* BaseApiClient: request cache *)

\* value of a parameter that is undefined or null
NoValue == "<undefined>"

\* BaseApiClient.buildUrl: the endpoint and, in order, the parameters that
\* have a value (URL serialisation is injective on this pair)
buildUrl(endpoint, params) ==
    [endpoint |-> endpoint,
     query |-> SelectSeq(params, LAMBDA p : p[2] # NoValue)]

\* the one fully-resolved URL NewsService asks each client for
UrlOf(s) ==
    CASE s = "hackernews" -> buildUrl("topstories.json", <<>>)
      [] s = "devto" -> buildUrl("articles", << <<"per_page", "30">> >>)
      [] s = "github" ->
            buildUrl("search/repositories",
                     << <<"q", "created:>date">>, <<"sort", "stars">>,
                        <<"order", "desc">>, <<"per_page", "30">> >>)

\* BaseApiClient.getFromCache: the entry, if present and younger than the TTL
clientCacheFresh(entry, t) == t - entry.timestamp < clientCacheDuration

clientGetFromCache(cc, key, t) ==
    IF key \in DOMAIN cc /\ clientCacheFresh(cc[key], t)
    THEN [hit |-> TRUE, data |-> cc[key].data, age |-> t - cc[key].timestamp]
    ELSE [hit |-> FALSE, data |-> <<>>, age |-> 0]

clientSaveToCache(cc, key, data, t) ==
    MapSet(cc, key, [data |-> data, timestamp |-> t])

\* BaseApiClient.clearExpiredCache
clientSweepDeletes(entry, t) == t - entry.timestamp > clientCacheDuration

clientClearExpiredCache(cc, t) ==
    [k \in {x \in DOMAIN cc : ~clientSweepDeletes(cc[x], t)} |-> cc[k]]

\* the ways BaseApiClient.get can reject: a non-2xx status (retries exhausted
\* or not retryable), a rejected fetch, an unparsable body
FailureKinds == {"http", "transport", "parse"}

\* the failure each provider is made to show
FailureKindsOf(s) ==
    CASE s = "hackernews" -> {"transport"}
      [] s = "devto" -> {"http"}
      [] s = "github" -> {"parse"}

FailureMessage(kind) ==
    CASE kind = "http" -> "API error: 503 Service Unavailable"
      [] kind = "transport" -> "Failed to fetch"
      [] kind = "parse" -> "Unexpected token < in JSON"

\* the ApiError that get builds, which getHackerNews / getDevToArticles /
\* getGitHubRepositories rethrow unchanged (error instanceof ApiError)
FailureReason(s, kind) ==
    [message |-> FailureMessage(kind), source |-> clientSource(s)]

-----------------------------------------------------------------------------
(* BaseApiClient.get, attempt by attempt *)

\* default of the `retries` parameter of get
defaultRetries == 3

\* rateLimitConfig: DevToClient passes maxRequests 30, the others the default
maxRequests(s) == IF s = "devto" THEN 30 ELSE 60
windowMs == 60 * 1000
retryAfterMs == 1000

\* the JSON body `null` (falsy), kept comparable with the array bodies
NullBody == <<[json |-> "null"]>>

\* if (cachedData): null, 0, false and "" are falsy, arrays are not
truthy(data) == data # NullBody

\* response.status >= 500 || response.status === 429
isRetryable(status) == status >= 500 \/ status = 429

statusText(status) ==
    CASE status = 404 -> "API error: 404 Not Found"
      [] status = 429 -> "API error: 429 Too Many Requests"
      [] status = 503 -> "API error: 503 Service Unavailable"

\* the ApiError thrown for a response that is not ok
httpError(s, status) ==
    [message |-> statusText(status), status |-> status,
     source |-> clientSource(s), retryable |-> isRetryable(status)]

\* the ApiError the catch block builds for anything that is not an ApiError
wrappedError(s, message) ==
    [message |-> message, status |-> 0, source |-> clientSource(s),
     retryable |-> FALSE]

NoApiError == [message |-> "", status |-> 0, source |-> "", retryable |-> FALSE]
NoHttp == [kind |-> "none", status |-> 0, body |-> <<>>]
NoUrl == buildUrl("", <<>>)

\* one get: st is where it stands (http: a fetch is in flight; backoff: the
\* retry delay is running), retries the value of its parameter in the current
\* recursion. attempts (fetches issued), slots (rate-limit slots taken),
\* waited (retry delays sat out) and lastResponse are history; so are
\* askedNo and grantedNo, the places of its latest checkRateLimit call among
\* the calls and among the grants of its client (0: not granted yet). A get
\* in st queued awaits checkRateLimit
FreeGet ==
    [st |-> "free", client |-> "devto", params |-> <<>>, url |-> NoUrl,
     retries |-> 0, wakeAt |-> 0, data |-> <<>>, error |-> NoApiError,
     attempts |-> 0, slots |-> 0, waited |-> <<>>, lastResponse |-> NoHttp,
     askedNo |-> 0, grantedNo |-> 0]

\* rateLimitState as constructed at time 0. held is the position of the
\* processQueue loops: the waiters whose request sits in its
\* `await new Promise(r => setTimeout(r, waitTime))`, each with the instant
\* its timer is due; asked and granted count the checkRateLimit calls and
\* the slots granted (history)
FreshLimiter ==
    [requests |-> 0, resetTime |-> windowMs, queue |-> <<>>, processing |-> FALSE,
     held |-> <<>>, asked |-> 0, granted |-> 0]

\* if (now > resetTime) { requests = 0; resetTime = now + windowMs }
openWindow(rl, t) ==
    IF t > rl.resetTime THEN [rl EXCEPT !.requests = 0, !.resetTime = t + windowMs]
                        ELSE rl

\* a limiter that never finds its limit reached
limitNeverReached(rl, s) == FALSE

\* requests >= maxRequests
limitReached(rl, s) == rl.requests >= maxRequests(s)

\* the first queued checkRateLimit request, when the limit is not reached:
\* the window is reset if it has passed and one request is counted
takeSlot(rl, s, t) ==
    [openWindow(rl, t) EXCEPT !.requests = @ + 1, !.granted = @ + 1]

RECURSIVE processLoop(_, _, _, _)
\* the while loop of processQueue from its test, at time t: requests are
\* shifted and run until the queue is empty (finally: processing = false) or
\* one of them finds the limit reached and waits for the reset time. Gives
\* the state and the waiters granted a slot, in the order of the grants
processLoop(rl, s, t, granted) ==
    IF rl.queue = <<>>
    THEN [rl |-> [rl EXCEPT !.processing = FALSE], granted |-> granted]
    ELSE LET g == Head(rl.queue)
             open == openWindow([rl EXCEPT !.queue = Tail(@)], t)
         IN IF limitReached(open, s)
            THEN [rl |-> [open EXCEPT !.held =
                             Append(@, [get |-> g, wakeAt |-> open.resetTime])],
                  granted |-> granted]
            ELSE processLoop(takeSlot(open, s, t), s, t, Append(granted, g))

\* a processQueue that starts a loop whether or not one is running
loopNeverRunning(rl) == FALSE

\* this.rateLimitState.processing
loopRunning(rl) == rl.processing

\* processQueue(), called at time t
processQueue(rl, s, t) ==
    IF ~loopRunning(rl) /\ rl.queue # <<>>
    THEN processLoop([rl EXCEPT !.processing = TRUE], s, t, <<>>)
    ELSE [rl |-> rl, granted |-> <<>>]

\* checkRateLimit() called for get g: queue.push(request), processQueue()
checkRateLimit(rl, s, g, t) ==
    processQueue([rl EXCEPT !.queue = Append(@, g), !.asked = @ + 1], s, t)

\* the request of the i-th held waiter after its setTimeout, at time t: the
\* counter restarts, the waiter is counted and resolved, and the loop that
\* awaited it goes on
afterWait(rl, s, i, t) ==
    LET rest == [j \in 1..(Len(rl.held) - 1) |->
                    IF j < i THEN rl.held[j] ELSE rl.held[j + 1]]
        restarted == [rl EXCEPT !.requests = 1, !.resetTime = t + windowMs,
                                !.granted = @ + 1, !.held = rest]
    IN processLoop(restarted, s, t, <<rl.held[i].get>>)

\* get g up to its fetch or to its place in the rate limiter's queue: the
\* cache lookup, then checkRateLimit. Gives the get, the rate-limit state
\* and the waiters that were granted a slot
beginAttempt(g, get, cc, rl, t) ==
    LET got == clientGetFromCache(cc, get.url, t)
    IN IF got.hit /\ truthy(got.data)
       THEN [get |-> [get EXCEPT !.st = "resolved", !.data = got.data],
             rl |-> rl, granted |-> <<>>]
       ELSE LET r == checkRateLimit(rl, get.client, g, t)
            IN [get |-> [get EXCEPT !.st = "queued", !.askedNo = rl.asked + 1,
                                    !.grantedNo = 0],
                rl |-> r.rl, granted |-> r.granted]

\* the gets once `await this.checkRateLimit()` has returned for the granted
\* ones: each issues its fetch. rl is the limiter after the grants
withGrants(gs, granted, rl) ==
    [g \in DOMAIN gs |->
        IF \E i \in 1..Len(granted) : granted[i] = g
        THEN LET i == CHOOSE i \in 1..Len(granted) : granted[i] = g
             IN [gs[g] EXCEPT !.st = "http", !.attempts = @ + 1, !.slots = @ + 1,
                              !.grantedNo = rl.granted - Len(granted) + i]
        ELSE gs[g]]

\* the get once the thrown ApiError reaches the catch block
catchApiError(get, err, t) ==
    IF err.retryable /\ get.retries > 0
    THEN [get EXCEPT !.st = "backoff", !.wakeAt = t + retryAfterMs, !.error = err]
    ELSE [get EXCEPT !.st = "rejected", !.error = err]

\* get from the moment the fetch promise settles with `resp`
afterFetch(get, resp, t) ==
    LET seen == [get EXCEPT !.lastResponse = resp]
    IN CASE resp.kind = "ok" -> [seen EXCEPT !.st = "resolved", !.data = resp.body]
         [] resp.kind = "status" ->
               catchApiError(seen, httpError(get.client, resp.status), t)
         [] resp.kind = "transport" ->
               [seen EXCEPT !.st = "rejected",
                            !.error = wrappedError(get.client, FailureMessage("transport"))]
         [] resp.kind = "parse" ->
               [seen EXCEPT !.st = "rejected",
                            !.error = wrappedError(get.client, FailureMessage("parse"))]

-----------------------------------------------------------------------------
(* NewsService: pure parts *)

\* UTF-16 order of the ids Array.prototype.sort compares
IdRank(id) ==
    CASE id = "devto" -> 1
      [] id = "github" -> 2
      [] id = "hackernews" -> 3
      [] OTHER -> 4

RECURSIVE InsertId(_, _)
InsertId(x, sorted) ==
    IF sorted = <<>> THEN <<x>>
    ELSE IF IdRank(Head(sorted)) <= IdRank(x)
         THEN <<Head(sorted)>> \o InsertId(x, Tail(sorted))
         ELSE <<x>> \o sorted

RECURSIVE SortIds(_)
SortIds(ids) ==
    IF ids = <<>> THEN <<>>
    ELSE InsertId(ids[Len(ids)], SortIds(SubSeq(ids, 1, Len(ids) - 1)))

CharCode(ch) ==
    CASE ch = "G" -> 71 [] ch = "R" -> 82 [] ch = "T" -> 84
      [] ch = "g" -> 103 [] ch = "i" -> 105 [] ch = "o" -> 111
      [] ch = "p" -> 112 [] ch = "r" -> 114 [] ch = "s" -> 115
      [] ch = "t" -> 116 [] ch = "u" -> 117 [] OTHER -> 0

RECURSIVE TextLessEq(_, _)
TextLessEq(a, b) ==
    IF a = <<>> THEN TRUE
    ELSE IF b = <<>> THEN FALSE
    ELSE IF CharCode(Head(a)) # CharCode(Head(b))
         THEN CharCode(Head(a)) < CharCode(Head(b))
         ELSE TextLessEq(Tail(a), Tail(b))

RECURSIVE InsertText(_, _)
InsertText(x, sorted) ==
    IF sorted = <<>> THEN <<x>>
    ELSE IF TextLessEq(Head(sorted), x)
         THEN <<Head(sorted)>> \o InsertText(x, Tail(sorted))
         ELSE <<x>> \o sorted

RECURSIVE SortTexts(_)
SortTexts(ts) ==
    IF ts = <<>> THEN <<>>
    ELSE InsertText(ts[Len(ts)], SortTexts(SubSeq(ts, 1, Len(ts) - 1)))

\* filter?.sources || this.sources.filter(s => s.enabled).map(s => s.id)
resolveSources(filter, registry) ==
    IF filter.sources # Omitted
    THEN filter.sources
    ELSE enabledIds(registry)

\* the key built without the source list
cacheKeyWithoutSources(ids) == <<>>

cacheKeyFromSources(ids) == SortIds(ids)

\* the object generateCacheKey serialises (JSON.stringify is injective on it)
generateCacheKey(ids, filter) ==
    [sources |-> cacheKeyFromSources(ids),
     search |-> filter.search,
     tags |-> IF filter.tags = AbsentTags THEN <<>> ELSE SortTexts(filter.tags)]

\* an entry of age cacheDuration still counts as fresh
cacheFreshInclusive(entry, t) == t - entry.timestamp <= cacheDuration

cacheFresh(entry, t) == t - entry.timestamp < cacheDuration

getFromCache(c, key, t) ==
    IF key \in DOMAIN c /\ cacheFresh(c[key], t)
    THEN [hit |-> TRUE, data |-> c[key].data, age |-> t - c[key].timestamp]
    ELSE [hit |-> FALSE, data |-> <<>>, age |-> 0]

\* the list is not stored
saveNothing(c, key, data, t) == c

saveToCache(c, key, data, t) == MapSet(c, key, [data |-> data, timestamp |-> t])

\* a clear that leaves the entries where they are
keepCache(c) == c

clearCache(c) == EmptyMap

\* the comparison of the sweep turned round
sweepDeletesFresh(entry, t) == t - entry.timestamp < cacheDuration

sweepDeletes(entry, t) == t - entry.timestamp > cacheDuration

clearExpiredCache(c, t) ==
    [k \in {x \in DOMAIN c : ~sweepDeletes(c[x], t)} |-> c[k]]

\* getSourceError: the message (Null for null) and the table it leaves
\* a record that is dropped as soon as it is one hour old
getSourceErrorUnderAnHour(errs, id, t) ==
    IF id \notin DOMAIN errs
    THEN [message |-> "<null>", errors |-> errs]
    ELSE IF t - errs[id].timestamp >= errorMaxAge
         THEN [message |-> "<null>", errors |-> MapDelete(errs, id)]
         ELSE [message |-> errs[id].message, errors |-> errs]

getSourceError(errs, id, t) ==
    IF id \notin DOMAIN errs
    THEN [message |-> "<null>", errors |-> errs]
    ELSE IF t - errs[id].timestamp > errorMaxAge
         THEN [message |-> "<null>", errors |-> MapDelete(errs, id)]
         ELSE [message |-> errs[id].message, errors |-> errs]

\* Promise.allSettled: never rejects, keeps the promises' order
allSettled(outcomes) == [rejected |-> FALSE, results |-> outcomes]

\* Promise.all: rejects as soon as one promise does
allFailFast(outcomes) ==
    [rejected |-> \E i \in 1..Len(outcomes) : outcomes[i].status = "rejected",
     results |-> outcomes]

settle(outcomes) == allSettled(outcomes)

\* key under which a rejected result is filed: result.reason?.source || 'unknown'
\* every failure filed under the fallback key
errorKeyUnknown(reason) == "unknown"

errorKey(reason) == IF reason.source = "" THEN "unknown" ELSE reason.source

errorText(reason) == IF reason.message = "" THEN "Unknown error" ELSE reason.message

RECURSIVE collectItems(_)
\* results.forEach, the allItems part
collectItems(results) ==
    IF results = <<>> THEN <<>>
    ELSE IF Head(results).status = "fulfilled"
         THEN Head(results).items \o collectItems(Tail(results))
         ELSE collectItems(Tail(results))

\* a forEach that leaves the error table alone
recordNothing(results, errs, t) == errs

RECURSIVE recordOutcomes(_, _, _)
\* results.forEach, the sourceErrors part
recordOutcomes(results, errs, t) ==
    IF results = <<>> THEN errs
    ELSE IF Head(results).status = "fulfilled"
         THEN recordOutcomes(Tail(results), MapDelete(errs, Head(results).source), t)
         ELSE recordOutcomes(Tail(results),
                  MapSet(errs, errorKey(Head(results).reason),
                         [message |-> errorText(Head(results).reason),
                          timestamp |-> t]), t)

\* a search that looks at the title only
matchesTitleOnly(item, searchLower) ==
    includes(toLowerCase(item.title), searchLower)

\* the predicate of the search filter; an absent field (?.) gives undefined
matchesSearch(item, searchLower) ==
    \/ includes(toLowerCase(item.title), searchLower)
    \/ item.description # Absent /\ includes(toLowerCase(item.description), searchLower)
    \/ item.content # Absent /\ includes(toLowerCase(item.content), searchLower)

matchesTags(item, tags) ==
    /\ item.tags # AbsentTags
    /\ \E i \in 1..Len(item.tags) : arrayIncludes(tags, toLowerCase(item.tags[i]))

RECURSIVE filterItems(_, _, _)
\* the three Array.prototype.filter passes, applied item by item
filterItems(items, ids, filter) ==
    IF items = <<>> THEN <<>>
    ELSE LET item == Head(items)
             keep == /\ arrayIncludes(ids, item.source)
                     /\ filter.search = <<>> \/ matchesSearch(item, toLowerCase(filter.search))
                     /\ \/ filter.tags = AbsentTags
                        \/ Len(filter.tags) = 0
                        \/ matchesTags(item, filter.tags)
         IN IF keep THEN <<item>> \o filterItems(Tail(items), ids, filter)
                    ELSE filterItems(Tail(items), ids, filter)

RECURSIVE insertByTimestamp(_, _)
insertByTimestamp(x, sorted) ==
    IF sorted = <<>> THEN <<x>>
    ELSE IF Head(sorted).timestamp >= x.timestamp
         THEN <<Head(sorted)>> \o insertByTimestamp(x, Tail(sorted))
         ELSE <<x>> \o sorted

RECURSIVE sortByTimestamp(_)
\* allItems.sort((a, b) => b.timestamp - a.timestamp): stable, newest first
sortByTimestamp(items) ==
    IF items = <<>> THEN <<>>
    ELSE insertByTimestamp(items[Len(items)],
                           sortByTimestamp(SubSeq(items, 1, Len(items) - 1)))

\* the list getAggregatedNews builds from the settled results
aggregate(results, ids, filter) ==
    sortByTimestamp(filterItems(collectItems(results), ids, filter))

-----------------------------------------------------------------------------
(* One getAggregatedNews invocation *)

NoReason == [message |-> "", source |-> ""]
\* body, the response body the items were made from, is history
NoFetch == [status |-> "none", items |-> <<>>, reason |-> NoReason, body |-> <<>>]
InFlight == [status |-> "inflight", items |-> <<>>, reason |-> NoReason, body |-> <<>>]

EmptyFilter == [sources |-> Omitted, search |-> <<>>, tags |-> AbsentTags]
NoKey == [sources |-> <<>>, search |-> <<>>, tags |-> <<>>]

\* st, ids (enabledSources), key, path and the settled fetches describe the
\* invocation. The rest is history. disabled: the sources switched off in the
\* registry when the call started. toggledSince, overwrittenSince: whether
\* updateSource ran / another fan-out stored a list under the same key since
\* this call settled. doneBefore, toggledBefore, overwrittenBefore: the calls
\* that had settled when this one started, and those of them for which
\* toggledSince / overwrittenSince held at that moment
FreeCall ==
    [st |-> "free", owner |-> "none", filter |-> EmptyFilter, ids |-> <<>>,
     key |-> NoKey, path |-> "none", fetch |-> [s \in Sources |-> NoFetch],
     result |-> <<>>, startedAt |-> 0, cachedAt |-> 0, disabled |-> {},
     toggledSince |-> FALSE, overwrittenSince |-> FALSE,
     doneBefore |-> {}, toggledBefore |-> {}, overwrittenBefore |-> {}]

Settled(call) == call.st \in {"resolved", "rejected"}

\* what the per-source promise settles with once get has returned `data`
bodyOutcome(s, data) ==
    [status |-> "fulfilled", items |-> ItemsOf(s, data), reason |-> NoReason,
     body |-> data]

failedOutcome(s, kind) ==
    [status |-> "rejected", items |-> <<>>, reason |-> FailureReason(s, kind),
     body |-> <<>>]

RECURSIVE promisesOf(_, _)
\* the promises array: hackernews, devto, github, for the ids that are listed
promisesOf(order, fetch) ==
    IF order = <<>> THEN <<>>
    ELSE IF fetch[Head(order)].status = "none"
         THEN promisesOf(Tail(order), fetch)
         ELSE <<[source |-> Head(order),
                 status |-> fetch[Head(order)].status,
                 items |-> fetch[Head(order)].items,
                 reason |-> fetch[Head(order)].reason]>>
              \o promisesOf(Tail(order), fetch)

\* the promises pushed in the order the caller listed the ids
promiseOrderAsGiven(ids) == ids

\* the order of the three if (enabledSources.includes(...)) promises.push(...)
promiseOrder(ids) == SelectSeqBy(SourceIds, {ids[i] : i \in 1..Len(ids)})

\* no short-circuit
neverShortCircuits(ids) == FALSE

\* the short-circuit test of getAggregatedNews
noSourcesEnabled(ids) == Len(ids) = 0

\* a fan-out over the whole registry
fanOutEverySource(ids) == Sources

\* the sources a fan-out starts a fetch for
fanOutTargets(ids) == {s \in Sources : arrayIncludes(ids, s)}

\* second half of getAggregatedNews: runs when every promise has settled.
\* Gives the finished call, the aggregate cache and the error table.
finishFanOut(call, c, errs) ==
    LET settled == settle(promisesOf(promiseOrder(call.ids), call.fetch))
    IN IF settled.rejected
       THEN [call |-> [call EXCEPT !.st = "rejected"],
             cache |-> c, errors |-> errs]
       ELSE LET sortedItems == aggregate(settled.results, call.ids, call.filter)
            IN [call |-> [call EXCEPT !.st = "resolved",
                                      !.result = sortedItems,
                                      !.cachedAt = now],
                cache |-> saveToCache(c, call.key, sortedItems, now),
                errors |-> recordOutcomes(settled.results, errs, now)]

\* first half of getAggregatedNews, up to the await; when nothing is left to
\* wait for, the second half follows in the same step
startCall(owner, filter, registry, cache0, errs0) ==
    LET ids == resolveSources(filter, registry)
        done == {d \in CallIds : Settled(calls[d])}
        base == [FreeCall EXCEPT !.owner = owner, !.filter = filter, !.ids = ids,
                                 !.startedAt = now,
                                 !.disabled = {s \in Sources : ~isEnabled(registry, s)},
                                 !.doneBefore = done,
                                 !.toggledBefore = {d \in done : calls[d].toggledSince},
                                 !.overwrittenBefore =
                                     {d \in done : calls[d].overwrittenSince}]
    IN IF noSourcesEnabled(ids)
       THEN [call |-> [base EXCEPT !.st = "resolved", !.path = "empty"],
             cache |-> cache0, errors |-> errs0]
       ELSE LET key == generateCacheKey(ids, filter)
                cached == getFromCache(cache0, key, now)
            IN IF cached.hit
               THEN [call |-> [base EXCEPT !.st = "resolved", !.path = "hit",
                                           !.key = key,
                                           !.result = cached.data,
                                           !.cachedAt = cache0[key].timestamp],
                     cache |-> cache0, errors |-> errs0]
               ELSE LET fetch ==
                          [s \in Sources |->
                             IF s \notin fanOutTargets(ids) THEN NoFetch
                             ELSE LET got == clientGetFromCache(clientCache[s], UrlOf(s), now)
                                  IN IF got.hit /\ truthy(got.data)
                                     THEN bodyOutcome(s, got.data)
                                     ELSE InFlight]
                        started == [base EXCEPT !.st = "pending", !.path = "fanout",
                                                !.key = key, !.fetch = fetch]
                    IN IF \E s \in Sources : fetch[s].status = "inflight"
                       THEN [call |-> started, cache |-> cache0, errors |-> errs0]
                       ELSE finishFanOut(started, cache0, errs0)

\* the call table cs once call c has become `call`
withCall(cs, c, call) ==
    [d \in CallIds |->
        IF d = c THEN call
        ELSE IF /\ call.st = "resolved" /\ call.path = "fanout"
                /\ cs[d].st = "resolved" /\ cs[d].path # "empty"
                /\ cs[d].key = call.key
             THEN [cs[d] EXCEPT !.overwrittenSince = TRUE]
             ELSE cs[d]]

-----------------------------------------------------------------------------
(* useNews instances *)

HookIds == {"home", "sidebar"}
NoError == "<null>"

\* intervalIdRef.current === null, refreshIntervalTime === null
NoTimer == 0
NoInterval == 0

\* the state and refs of one useNews instance. mounted, discarded (the
\* component was unmounted) and timersAtUnmount (its timers active when the
\* unmount cleanup began) describe the component, not the hook's own state;
\* drops counts the handleRefresh calls that returned at the guard
UnmountedHook ==
    [mounted |-> FALSE, sources |-> InitialSources, news |-> <<>>,
     isLoading |-> TRUE, error |-> NoError, sourceErrors |-> <<>>,
     isRefreshing |-> FALSE,
     refreshIntervalTime |-> NoInterval, intervalIdRef |-> NoTimer,
     discarded |-> FALSE, timersAtUnmount |-> {}, drops |-> 0]

\* getEnabledSources of the hook: ids of its own `sources` state
getEnabledSources(hookSources) ==
    enabledIds(hookSources)

\* a refresh that reports no source error at all
collectNoErrors(order, errs, t) == [list |-> <<>>, errors |-> errs]

RECURSIVE collectSourceErrors(_, _, _)
\* sources.forEach(source => newsService.getSourceError(source.id) ...)
collectSourceErrors(order, errs, t) ==
    IF order = <<>> THEN [list |-> <<>>, errors |-> errs]
    ELSE LET got == getSourceError(errs, Head(order), t)
             rest == collectSourceErrors(Tail(order), got.errors, t)
         IN IF got.message # "<null>"
            THEN [list |-> <<[id |-> Head(order), message |-> got.message]>> \o rest.list,
                  errors |-> rest.errors]
            ELSE rest

\* a refreshNews without its finally block
afterAwaitWithoutFinally(hook, call, errs) ==
    IF call.st = "resolved"
    THEN LET collected == collectSourceErrors(SourceIds, errs, now)
         IN [hook |-> [hook EXCEPT !.news = call.result,
                                   !.sourceErrors = collected.list],
             errors |-> collected.errors]
    ELSE [hook |-> [hook EXCEPT !.error = "Failed to fetch news"],
          errors |-> errs]

\* the part of refreshNews after the await, for a settled call
afterAwait(hook, call, errs) ==
    IF call.st = "resolved"
    THEN LET collected == collectSourceErrors(SourceIds, errs, now)
         IN [hook |-> [hook EXCEPT !.news = call.result,
                                   !.sourceErrors = collected.list,
                                   !.isLoading = FALSE,
                                   !.isRefreshing = FALSE],
             errors |-> collected.errors]
    ELSE [hook |-> [hook EXCEPT !.error = "Failed to fetch news",
                                !.isLoading = FALSE,
                                !.isRefreshing = FALSE],
          errors |-> errs]

\* a guard that lets every call through
guardNeverBlocks(hook) == FALSE

\* the reentrancy guard of refreshNews
guardBlocks(hook) == hook.isRefreshing

\* refreshNews() of hook h as rendered with `hook`, against the given service
\* state: the new hook state, the call it started (if any), the service state
refreshNews(h, hook, registry, cache0, errs0) ==
    IF guardBlocks(hook)
    THEN [started |-> FALSE, hook |-> hook, call |-> FreeCall,
          cache |-> cache0, errors |-> errs0]
    ELSE LET mergedFilter == [EmptyFilter EXCEPT !.sources = getEnabledSources(hook.sources)]
             r == startCall(h, mergedFilter, registry, cache0, errs0)
             begun == [hook EXCEPT !.isRefreshing = TRUE, !.isLoading = TRUE,
                                   !.error = NoError]
         IN IF r.call.st = "pending"
            THEN [started |-> TRUE, hook |-> begun, call |-> r.call,
                  cache |-> r.cache, errors |-> r.errors]
            ELSE LET a == afterAwait(begun, r.call, r.errors)
                 IN [started |-> TRUE, hook |-> a.hook, call |-> r.call,
                     cache |-> r.cache, errors |-> a.errors]

\* the argument of setRefreshInterval: null or a number of milliseconds
NullArg == [isNull |-> TRUE, ms |-> 0]
MsArg(ms) == [isNull |-> FALSE, ms |-> ms]

\* clearInterval leaves every timer but this one running
clearNothing(active, id) == active

\* clearInterval(id) on the set of running timers
clearInterval(active, id) == active \ {id}

\* if (intervalIdRef.current) { clearInterval(...); intervalIdRef.current = null }
clearExisting(hook, active) ==
    IF hook.intervalIdRef # NoTimer
    THEN [hook |-> [hook EXCEPT !.intervalIdRef = NoTimer],
          active |-> clearInterval(active, hook.intervalIdRef)]
    ELSE [hook |-> hook, active |-> active]

\* setRefreshInterval(arg) of a hook whose running timers are `active`, when
\* seq timers have been created so far: the hook, its running timers and the
\* number of timers created
setRefreshInterval(hook, active, seq, arg) ==
    LET cleared == clearExisting(hook, active)
    IN IF ~arg.isNull /\ arg.ms # 0 /\ arg.ms > 0
       THEN [hook |-> [cleared.hook EXCEPT !.refreshIntervalTime = arg.ms,
                                           !.intervalIdRef = seq + 1],
             active |-> cleared.active \cup {seq + 1},
             seq |-> seq + 1]
       ELSE [hook |-> [cleared.hook EXCEPT !.refreshIntervalTime = NoInterval],
             active |-> cleared.active,
             seq |-> seq]

\* the unmount leaves the timer running
noCleanup(hook, active) == [hook |-> hook, active |-> active]

\* the cleanup of the unmount effect
unmountCleanup(hook, active) == clearExisting(hook, active)

-----------------------------------------------------------------------------
(* State machine *)

\* filters handed to getAggregatedNews by direct callers
Filters ==
    {EmptyFilter,
     [EmptyFilter EXCEPT !.sources = <<>>],
     [EmptyFilter EXCEPT !.search = Rust]}

\* filters of callers that narrow the list: source lists in several orders,
\* search strings and tags in either case
QueryFilters ==
    {EmptyFilter,
     [EmptyFilter EXCEPT !.sources = <<"github", "devto">>],
     [EmptyFilter EXCEPT !.sources = <<"devto", "github">>],
     [EmptyFilter EXCEPT !.sources = <<"github", "hackernews", "devto">>],
     [EmptyFilter EXCEPT !.search = rust],
     [EmptyFilter EXCEPT !.search = Rust],
     [EmptyFilter EXCEPT !.search = go],
     [EmptyFilter EXCEPT !.tags = <<>>],
     [EmptyFilter EXCEPT !.tags = <<rust>>],
     [EmptyFilter EXCEPT !.tags = <<Rust>>],
     [EmptyFilter EXCEPT !.tags = <<Tips, go>>],
     [EmptyFilter EXCEPT !.tags = <<go, Tips>>]}

\* filters that list sources: an unknown id, a repeated id, ids in any order
FetchFilters ==
    {EmptyFilter,
     [EmptyFilter EXCEPT !.sources = <<"devto", "reddit">>],
     [EmptyFilter EXCEPT !.sources = <<"reddit">>],
     [EmptyFilter EXCEPT !.sources = <<"github", "github">>],
     [EmptyFilter EXCEPT !.sources = <<"hackernews", "devto">>]}

\* filters of callers that ask for some of the sources
PayloadFilters ==
    {EmptyFilter,
     [EmptyFilter EXCEPT !.sources = <<"hackernews">>],
     [EmptyFilter EXCEPT !.sources = <<"devto">>],
     [EmptyFilter EXCEPT !.sources = <<"devto", "hackernews">>]}

\* the instants at which events are observed: just before, exactly at, just
\* after and well after the expiry of what was stored at time 0
TickStep(i) ==
    CASE i = 0 -> cacheDuration - 1
      [] i \in {1, 2} -> 1
      [] OTHER -> cacheDuration

\* the instants at which an error record is looked at: just before, exactly
\* at and just after the hour, then an hour later
HourStep(i) ==
    CASE i = 0 -> errorMaxAge - 1
      [] i \in {1, 2} -> 1
      [] OTHER -> errorMaxAge

NoLookup == [id |-> "", at |-> 0, found |-> <<>>, message |-> "<null>"]

\* the service, the hooks and the clients' caches as constructed
InitButLimiter ==
    /\ now = 0
    /\ ticks = 0
    /\ toggles = 0
    /\ sources = InitialSources
    /\ cache = EmptyMap
    /\ sourceErrors = EmptyMap
    /\ clientCache = [s \in Sources |-> EmptyMap]
    /\ calls = [c \in CallIds |-> FreeCall]
    /\ hooks = [h \in HookIds |-> UnmountedHook]
    /\ timers = [h \in HookIds |-> {}]
    /\ timerSeq = 0
    /\ gets = [g \in GetIds |-> FreeGet]
    /\ lastLookup = NoLookup

Init ==
    /\ InitButLimiter
    /\ rateLimitState = [s \in Sources |-> FreshLimiter]

\* how many slots of dev.to's first window earlier gets, all answered and
\* forgotten, have taken when the gets that are followed begin: none, or all
\* but two
SlotsTaken == {0, maxRequests("devto") - 2}

InitLimiter ==
    /\ InitButLimiter
    /\ \E taken \in SlotsTaken :
          rateLimitState =
             [s \in Sources |->
                 IF s = "devto"
                 THEN [FreshLimiter EXCEPT !.requests = taken, !.asked = taken,
                                           !.granted = taken]
                 ELSE FreshLimiter]

NumPending == Cardinality({c \in CallIds : calls[c].st = "pending"})
NumCalls == Cardinality({c \in CallIds : calls[c].st # "free"})

CanStartCall(maxCalls, maxPending) ==
    /\ NumCalls < maxCalls
    /\ NumPending < maxPending

NextCall == CHOOSE c \in CallIds :
                /\ calls[c].st = "free"
                /\ \A d \in CallIds : calls[d].st = "free" => c <= d

\* newsService.getAggregatedNews(filter), called directly
GetAggregatedNews(filter, maxCalls, maxPending) ==
    /\ CanStartCall(maxCalls, maxPending)
    /\ LET r == startCall("direct", filter, sources, cache, sourceErrors)
       IN /\ calls' = withCall(calls, NextCall, r.call)
          /\ cache' = r.cache
          /\ sourceErrors' = r.errors
    /\ UNCHANGED <<now, ticks, toggles, sources, clientCache, hooks, timerVars, getVars, lookupVars>>

\* a registry that adds an entry for an id it does not list
upsertedRegistry(registry, id, enabled) ==
    IF \E i \in 1..Len(registry) : registry[i].id = id
    THEN [i \in 1..Len(registry) |->
             IF registry[i].id = id THEN [registry[i] EXCEPT !.enabled = enabled]
                                    ELSE registry[i]]
    ELSE Append(registry, [id |-> id, name |-> id, enabled |-> enabled])

\* NewsService.updateSource: the registry with one flag replaced
updatedRegistry(registry, id, enabled) ==
    [i \in 1..Len(registry) |->
        IF registry[i].id = id THEN [registry[i] EXCEPT !.enabled = enabled]
                               ELSE registry[i]]

markToggled(cs) ==
    [d \in CallIds |-> IF Settled(cs[d]) THEN [cs[d] EXCEPT !.toggledSince = TRUE]
                                          ELSE cs[d]]

\* newsService.updateSource(id, enabled), called directly
UpdateSource(id, enabled) ==
    /\ toggles < MaxToggles
    /\ toggles' = toggles + 1
    /\ sources' = updatedRegistry(sources, id, enabled)
    /\ cache' = clearCache(cache)
    /\ calls' = markToggled(calls)
    /\ UNCHANGED <<now, ticks, sourceErrors, clientCache, hooks, timerVars, getVars, lookupVars>>

\* updateSource arguments: a flag that changes, one that does not, an id the
\* registry does not have
ToggleInputs ==
    {[id |-> "devto", enabled |-> FALSE],
     [id |-> "github", enabled |-> TRUE],
     [id |-> "reddit", enabled |-> FALSE]}

\* how the HTTP call of one client can end; only the providers in failing
\* are made to fail
Responses(s, failing) ==
    {[ok |-> TRUE, body |-> p, kind |-> ""] : p \in Payloads(s)}
    \cup {[ok |-> FALSE, body |-> <<>>, kind |-> k] :
             k \in IF s \in failing THEN FailureKindsOf(s) ELSE {}}

NoResponse == [ok |-> FALSE, body |-> <<>>, kind |-> ""]

ResponsesFor(c, s, failing) ==
    IF calls[c].fetch[s].status = "inflight" THEN Responses(s, failing) ELSE {NoResponse}

\* every client call that pending call c waits for has settled: a successful
\* get has stored its body in the client's cache, then the second half of
\* getAggregatedNews runs, then (for a hook's call) the rest of refreshNews
FanOutSettles(c, resp) ==
    /\ calls[c].st = "pending"
    /\ LET fetch == [s \in Sources |->
                       IF calls[c].fetch[s].status # "inflight" THEN calls[c].fetch[s]
                       ELSE IF resp[s].ok THEN bodyOutcome(s, resp[s].body)
                            ELSE failedOutcome(s, resp[s].kind)]
           f == finishFanOut([calls[c] EXCEPT !.fetch = fetch], cache, sourceErrors)
           owner == calls[c].owner
       IN /\ clientCache' =
                [s \in Sources |->
                    IF calls[c].fetch[s].status = "inflight" /\ resp[s].ok
                    THEN clientSaveToCache(clientCache[s], UrlOf(s), resp[s].body, now)
                    ELSE clientCache[s]]
          /\ calls' = withCall(calls, c, f.call)
          /\ cache' = f.cache
          /\ IF owner \in HookIds
             THEN LET a == afterAwait(hooks[owner], f.call, f.errors)
                  IN /\ hooks' = IF hooks[owner].mounted
                                  THEN [hooks EXCEPT ![owner] = a.hook]
                                  ELSE hooks
                     /\ sourceErrors' = a.errors
             ELSE /\ sourceErrors' = f.errors
                  /\ UNCHANGED hooks
    /\ UNCHANGED <<now, ticks, toggles, sources, timerVars, getVars, lookupVars>>

SomeFanOutSettles(failing) ==
    \E c \in CallIds :
       \E rh \in ResponsesFor(c, "hackernews", failing),
          rd \in ResponsesFor(c, "devto", failing),
          rg \in ResponsesFor(c, "github", failing) :
          FanOutSettles(c, [s \in Sources |->
                              CASE s = "hackernews" -> rh
                                [] s = "devto" -> rd
                                [] s = "github" -> rg])

\* response bodies with a repeated record, with no record, with several
AnyPayloads(s) ==
    CASE s = "hackernews" -> {<<hn2, hn1, hn3>>, <<hn1, hn1>>}
      [] s = "devto" -> {<<dev1>>, <<dev1, dev1>>, <<>>}
      [] s = "github" -> {<<gh1>>}

AnyBodyFor(c, s) ==
    IF calls[c].fetch[s].status = "inflight"
    THEN {[ok |-> TRUE, body |-> p, kind |-> ""] : p \in AnyPayloads(s)}
    ELSE {NoResponse}

\* FanOutSettles with every provider answering one of these bodies
SomeFanOutSettlesAnyBody ==
    \E c \in CallIds :
       \E rh \in AnyBodyFor(c, "hackernews"),
          rd \in AnyBodyFor(c, "devto"),
          rg \in AnyBodyFor(c, "github") :
          FanOutSettles(c, [s \in Sources |->
                              CASE s = "hackernews" -> rh
                                [] s = "devto" -> rd
                                [] s = "github" -> rg])

\* the setInterval sweep of NewsService
ClearExpiredCache ==
    /\ cache' = clearExpiredCache(cache, now)
    /\ UNCHANGED <<now, ticks, toggles, sources, sourceErrors, clientCache, calls, hooks, timerVars, getVars, lookupVars>>

\* the setInterval sweep of one BaseApiClient
ClientClearExpiredCache(s) ==
    /\ clientCache' = [clientCache EXCEPT ![s] = clientClearExpiredCache(@, now)]
    /\ UNCHANGED <<now, ticks, toggles, sources, cache, sourceErrors, calls, hooks, timerVars, getVars, lookupVars>>

Tick ==
    /\ ticks < MaxTicks
    /\ now' = now + TickStep(ticks)
    /\ ticks' = ticks + 1
    /\ UNCHANGED <<toggles, sources, cache, sourceErrors, clientCache, calls, hooks, timerVars, getVars, lookupVars>>

\* the clock moves on by about an hour
HourTick ==
    /\ ticks < MaxHourTicks
    /\ now' = now + HourStep(ticks)
    /\ ticks' = ticks + 1
    /\ UNCHANGED <<toggles, sources, cache, sourceErrors, clientCache, calls, hooks,
                   timerVars, getVars, lookupVars>>

\* the ids getSourceError is asked about
LookupIds == {"hackernews", "devto"}

\* newsService.getSourceError(id), called directly
GetSourceError(id) ==
    /\ LET got == getSourceError(sourceErrors, id, now)
       IN /\ sourceErrors' = got.errors
          /\ lastLookup' = [id |-> id, at |-> now,
                            found |-> IF id \in DOMAIN sourceErrors
                                      THEN <<sourceErrors[id]>> ELSE <<>>,
                            message |-> got.message]
    /\ UNCHANGED <<now, ticks, toggles, sources, cache, clientCache, calls, hooks,
                   timerVars, getVars>>

\* a component calling useNews() mounts: initial state, then the mount effect
\* calls refreshNews(initialFilter); the sources-changed effect of the same
\* commit finds the guard set and does nothing
Mount(h) ==
    /\ ~hooks[h].mounted
    /\ ~hooks[h].discarded
    /\ CanStartCall(MaxHookCalls, MaxHookCalls)
    /\ LET fresh == [UnmountedHook EXCEPT !.mounted = TRUE, !.sources = sources]
           r == refreshNews(h, fresh, sources, cache, sourceErrors)
       IN /\ hooks' = [hooks EXCEPT ![h] = r.hook]
          /\ calls' = withCall(calls, NextCall, r.call)
          /\ cache' = r.cache
          /\ sourceErrors' = r.errors
    /\ UNCHANGED <<now, ticks, toggles, sources, clientCache, timerVars, getVars, lookupVars>>

\* handleRefresh of the Home page or the Sidebar: refreshNews(); a call that
\* returns at the guard is counted, up to maxDrops of them
ManualRefresh(h, maxDrops) ==
    /\ hooks[h].mounted
    /\ LET r == refreshNews(h, hooks[h], sources, cache, sourceErrors)
       IN /\ IF r.started
             THEN /\ CanStartCall(MaxHookCalls, MaxHookCalls)
                  /\ hooks' = [hooks EXCEPT ![h] = r.hook]
                  /\ calls' = withCall(calls, NextCall, r.call)
             ELSE /\ hooks[h].drops < maxDrops
                  /\ hooks' = [hooks EXCEPT ![h] = [r.hook EXCEPT !.drops = @ + 1]]
                  /\ calls' = calls
          /\ cache' = r.cache
          /\ sourceErrors' = r.errors
    /\ UNCHANGED <<now, ticks, toggles, sources, clientCache, timerVars, getVars, lookupVars>>

\* toggleSource of the Sidebar: updateSource(id, !source.enabled) of its hook,
\* i.e. setSources with newsService.updateSource inside the updater, then the
\* sources-changed effect of the re-render
ToggleSource(id) ==
    /\ hooks["sidebar"].mounted
    /\ toggles < MaxHookToggles
    /\ CanStartCall(MaxHookCalls, MaxHookCalls)
    /\ toggles' = toggles + 1
    /\ LET enabled == ~isEnabled(hooks["sidebar"].sources, id)
           toggled == [hooks["sidebar"] EXCEPT
                          !.sources = updatedRegistry(@, id, enabled)]
           registry == updatedRegistry(sources, id, enabled)
           r == refreshNews("sidebar", toggled, registry, clearCache(cache), sourceErrors)
       IN /\ sources' = registry
          /\ hooks' = [hooks EXCEPT !["sidebar"] = r.hook]
          /\ IF r.started
             THEN calls' = withCall(markToggled(calls), NextCall, r.call)
             ELSE calls' = markToggled(calls)
          /\ cache' = r.cache
          /\ sourceErrors' = r.errors
    /\ UNCHANGED <<now, ticks, clientCache, timerVars, getVars, lookupVars>>

\* the intervals the auto-refresh is switched to
IntervalArgs == {NullArg, MsArg(0), MsArg(-1), MsArg(60 * 1000), MsArg(5 * 60 * 1000)}

\* setRefreshInterval(arg) of a mounted hook
SetRefreshInterval(h, arg) ==
    /\ hooks[h].mounted
    /\ timerSeq < MaxTimers
    /\ LET r == setRefreshInterval(hooks[h], timers[h], timerSeq, arg)
       IN /\ hooks' = [hooks EXCEPT ![h] = r.hook]
          /\ timers' = [timers EXCEPT ![h] = r.active]
          /\ timerSeq' = r.seq
    /\ UNCHANGED <<now, ticks, toggles, sources, cache, sourceErrors, clientCache,
                   calls, getVars, lookupVars>>

\* interval timer id of hook h fires: refreshNews()
TimerFires(h, id) ==
    /\ id \in timers[h]
    /\ CanStartCall(MaxTimerCalls, MaxTimerCalls)
    /\ LET r == refreshNews(h, hooks[h], sources, cache, sourceErrors)
       IN /\ hooks' = [hooks EXCEPT ![h] = r.hook]
          /\ IF r.started
             THEN calls' = withCall(calls, NextCall, r.call)
             ELSE calls' = calls
          /\ cache' = r.cache
          /\ sourceErrors' = r.errors
    /\ UNCHANGED <<now, ticks, toggles, sources, clientCache, timerVars, getVars, lookupVars>>

\* the component of hook h is unmounted: the cleanup of the hook's unmount
\* effect, then (Home page only) the cleanup of the component's auto-refresh
\* effect, which calls setRefreshInterval(null)
Unmount(h) ==
    /\ hooks[h].mounted
    /\ LET cleaned == unmountCleanup(hooks[h], timers[h])
           r == IF h = "home"
                THEN setRefreshInterval(cleaned.hook, cleaned.active, timerSeq, NullArg)
                ELSE [hook |-> cleaned.hook, active |-> cleaned.active, seq |-> timerSeq]
       IN /\ hooks' = [hooks EXCEPT ![h] = [r.hook EXCEPT !.mounted = FALSE,
                                                         !.discarded = TRUE,
                                                         !.timersAtUnmount = timers[h]]]
          /\ timers' = [timers EXCEPT ![h] = r.active]
          /\ timerSeq' = r.seq
    /\ UNCHANGED <<now, ticks, toggles, sources, cache, sourceErrors, clientCache,
                   calls, getVars, lookupVars>>

\* the endpoint each client is asked for
endpointOf(s) == IF s = "devto" THEN "articles" ELSE "search/repositories"

\* Number.prototype.toString of an integer
toString(n) == ToString(n)

\* the params object getLatestArticles(limit) hands to get
latestArticlesParams(limit) == << <<"per_page", toString(limit)>> >>

\* the params object getTrendingRepositories(undefined, 'daily', limit) hands
\* to get
trendingRepositoriesParams(limit) ==
    << <<"q", "created:>date">>, <<"sort", "stars">>, <<"order", "desc">>,
       <<"per_page", toString(limit)>> >>

\* the gets that are followed: the client and the parameters it is called
\* with (the third has a parameter without a value)
GetRequests ==
    {[client |-> "devto", params |-> << <<"per_page", "30">> >>],
     [client |-> "devto", params |-> << <<"per_page", "10">> >>],
     [client |-> "devto", params |-> << <<"per_page", "30">>, <<"tag", NoValue>> >>],
     [client |-> "github", params |-> << <<"per_page", "30">> >>]}

\* the JSON bodies of a 2xx answer: an array, the empty array, null
GetBodies == {<<dev1>>, <<>>, NullBody}

\* how one fetch can end: a 2xx answer with a parsable body, another status,
\* a rejected fetch, a 2xx answer whose body does not parse
HttpOutcomes ==
    {[kind |-> "ok", status |-> 200, body |-> b] : b \in GetBodies}
    \cup {[kind |-> "status", status |-> k, body |-> <<>>] : k \in {404, 429, 503}}
    \cup {[kind |-> "transport", status |-> 0, body |-> <<>>],
          [kind |-> "parse", status |-> 200, body |-> <<>>]}

NextGetId == CHOOSE g \in GetIds :
                /\ gets[g].st = "free"
                /\ \A d \in GetIds : gets[d].st = "free" => g <= d

\* the timers set and not yet fired: the instants they are due
TimersDue ==
    {gets[g].wakeAt : g \in {d \in GetIds : gets[d].st = "backoff"}}
    \cup UNION {{rateLimitState[s].held[i].wakeAt :
                     i \in 1..Len(rateLimitState[s].held)} : s \in Sources}

\* client.get(endpoint, params) with the default useCache and retries, while
\* fewer than maxGets gets were made and fewer than maxPending are pending
Get(s, params, maxGets, maxPending) ==
    /\ \E g \in 1..maxGets : gets[g].st = "free"
    /\ Cardinality({g \in GetIds : gets[g].st \in {"queued", "http", "backoff"}})
          < maxPending
    /\ LET fresh == [FreeGet EXCEPT !.client = s, !.params = params,
                                    !.url = buildUrl(endpointOf(s), params),
                                    !.retries = defaultRetries]
           r == beginAttempt(NextGetId, fresh, clientCache[s], rateLimitState[s], now)
       IN /\ gets' = withGrants([gets EXCEPT ![NextGetId] = r.get], r.granted, r.rl)
          /\ rateLimitState' = [rateLimitState EXCEPT ![s] = r.rl]
    /\ UNCHANGED <<now, ticks, toggles, sources, cache, sourceErrors, clientCache,
                   calls, hooks, timerVars, lookupVars>>

\* a get that stores whatever came back, also after a failure
cacheAfterAnyFetch(cc, url, resp, t) == clientSaveToCache(cc, url, resp.body, t)

\* if (useCache) this.saveToCache(url, data), reached only when the response
\* was ok and its body parsed
cacheAfterFetch(cc, url, resp, t) ==
    IF resp.kind = "ok" THEN clientSaveToCache(cc, url, resp.body, t) ELSE cc

\* the fetch of get g settles; a parsed body is stored in the cache
HttpResponds(g, resp) ==
    /\ gets[g].st = "http"
    /\ gets' = [gets EXCEPT ![g] = afterFetch(@, resp, now)]
    /\ clientCache' = [clientCache EXCEPT ![gets[g].client] =
                          cacheAfterFetch(@, gets[g].url, resp, now)]
    /\ UNCHANGED <<now, ticks, toggles, sources, cache, sourceErrors, calls, hooks,
                   timerVars, rateLimitState, lookupVars>>

\* the limits callers pass: below, at and above the ends of 1..100
Limits == {-1, 0, 1, 30, 100, 101}

\* devToClient.getLatestArticles(limit), up to the fetch of its get
GetLatestArticles(limit) ==
    Get("devto", latestArticlesParams(limit), MaxGets, MaxPendingGets)

\* githubClient.getTrendingRepositories(undefined, 'daily', limit), up to the
\* fetch of its get
GetTrendingRepositories(limit) ==
    Get("github", trendingRepositoriesParams(limit), MaxGets, MaxPendingGets)

\* how the providers answer these calls: with a body or with 404
LimitOutcomes ==
    {[kind |-> "ok", status |-> 200, body |-> <<dev1>>],
     [kind |-> "status", status |-> 404, body |-> <<>>]}

\* the retry delay of get g is over (time has moved on to wakeAt at least,
\* and no timer due earlier is waiting):
\* this.get(endpoint, params, headers, useCache, retries - 1)
RetryTimerFires(g) ==
    /\ gets[g].st = "backoff"
    /\ \A due \in TimersDue : gets[g].wakeAt <= due
    /\ LET t == IF now < gets[g].wakeAt THEN gets[g].wakeAt ELSE now
           s == gets[g].client
           again == [gets[g] EXCEPT !.retries = @ - 1,
                                    !.waited = Append(@, t - (gets[g].wakeAt - retryAfterMs))]
           r == beginAttempt(g, again, clientCache[s], rateLimitState[s], t)
       IN /\ now' = t
          /\ gets' = withGrants([gets EXCEPT ![g] = r.get], r.granted, r.rl)
          /\ rateLimitState' = [rateLimitState EXCEPT ![s] = r.rl]
    /\ UNCHANGED <<ticks, toggles, sources, cache, sourceErrors, clientCache,
                   calls, hooks, timerVars, lookupVars>>

\* the setTimeout of the i-th waiter held by the rate limiter of client s
\* fires (time has moved on to the reset time at least, and no timer due
\* earlier is waiting): the rest of its request, then the rest of the loop
WindowTimerFires(s, i) ==
    /\ i \in 1..Len(rateLimitState[s].held)
    /\ \A due \in TimersDue : rateLimitState[s].held[i].wakeAt <= due
    /\ LET due == rateLimitState[s].held[i].wakeAt
           t == IF now < due THEN due ELSE now
           r == afterWait(rateLimitState[s], s, i, t)
       IN /\ now' = t
          /\ gets' = withGrants(gets, r.granted, r.rl)
          /\ rateLimitState' = [rateLimitState EXCEPT ![s] = r.rl]
    /\ UNCHANGED <<ticks, toggles, sources, cache, sourceErrors, clientCache,
                   calls, hooks, timerVars, lookupVars>>

\* NewsService used directly, one call at a time, while time passes and the
\* periodic sweeps run
Next ==
    \/ \E f \in Filters : GetAggregatedNews(f, MaxCalls, 1)
    \/ SomeFanOutSettles(Sources)
    \/ ClearExpiredCache
    \/ \E s \in Sources : ClientClearExpiredCache(s)
    \/ Tick

Spec == Init /\ [][Next]_vars

\* NewsService used directly, overlapping calls and toggles at one instant
NextOverlap ==
    \/ \E f \in Filters : GetAggregatedNews(f, MaxOverlapCalls, MaxPending)
    \/ \E i \in 1..Len(ToggleOrder) : i = toggles + 1 /\ UpdateSource(ToggleOrder[i], FALSE)
    \/ SomeFanOutSettles(OverlapFailing)

SpecOverlap == Init /\ [][NextOverlap]_vars

\* the Home page and the Sidebar, each with its own useNews instance
NextHook ==
    \/ \E h \in HookIds : Mount(h)
    \/ \E h \in HookIds : ManualRefresh(h, 0)
    \/ \E id \in Sources : ToggleSource(id)
    \/ SomeFanOutSettles(Sources)

SpecHook == Init /\ [][NextHook]_vars

\* the two components with users who press refresh while a refresh is in
\* flight
NextGuard ==
    \/ \E h \in HookIds : Mount(h)
    \/ \E h \in HookIds : ManualRefresh(h, MaxDrops)
    \/ SomeFanOutSettles({"devto"})

SpecGuard == Init /\ [][NextGuard]_vars

\* the auto-refresh timers of the Home page and the Sidebar
NextTimer ==
    \/ \E h \in HookIds : Mount(h)
    \/ \E h \in HookIds, arg \in IntervalArgs : SetRefreshInterval(h, arg)
    \/ \E h \in HookIds, id \in 1..MaxTimers : TimerFires(h, id)
    \/ \E h \in HookIds : Unmount(h)
    \/ SomeFanOutSettles({})

SpecTimer == Init /\ [][NextTimer]_vars

\* one client's get followed attempt by attempt. The retry delay is a timer
\* of the page and does fire; nothing obliges the upstream to answer
NextGet ==
    \/ \E req \in GetRequests : Get(req.client, req.params, MaxGets, MaxPendingGets)
    \/ \E g \in GetIds, resp \in HttpOutcomes : HttpResponds(g, resp)
    \/ \E g \in GetIds : RetryTimerFires(g)

SpecGet == Init /\ [][NextGet]_vars /\ WF_vars(\E g \in GetIds : RetryTimerFires(g))

\* the answers of a provider that is down or does not know the URL
LimiterOutcomes ==
    {[kind |-> "status", status |-> k, body |-> <<>>] : k \in {503, 404}}

\* concurrent gets on the dev.to client around the end of a rate-limit
\* window. The timers of the page (retry delays, the limiter's wait) do fire
NextLimiter ==
    \/ Get("devto", latestArticlesParams(30), MaxLimiterGets, MaxLimiterPending)
    \/ \E g \in GetIds, resp \in LimiterOutcomes : HttpResponds(g, resp)
    \/ \E g \in GetIds : RetryTimerFires(g)
    \/ \E s \in Sources, i \in 1..MaxLimiterGets : WindowTimerFires(s, i)

SpecLimiter ==
    /\ InitLimiter
    /\ [][NextLimiter]_vars
    /\ WF_vars(\E g \in GetIds : RetryTimerFires(g))
    /\ WF_vars(\E s \in Sources, i \in 1..MaxLimiterGets : WindowTimerFires(s, i))

-----------------------------------------------------------------------------
\* direct callers with narrowing filters, every provider answering
NextQuery ==
    \/ \E f \in QueryFilters : GetAggregatedNews(f, MaxQueryCalls, 1)
    \/ SomeFanOutSettles({})

SpecQuery == Init /\ [][NextQuery]_vars

\* direct callers, the providers answering with bodies of any shape
NextPayload ==
    \/ \E f \in PayloadFilters : GetAggregatedNews(f, MaxPayloadCalls, 1)
    \/ SomeFanOutSettlesAnyBody

SpecPayload == Init /\ [][NextPayload]_vars

\* direct callers whose providers may fail, the error table read over hours
NextErrors ==
    \/ GetAggregatedNews(EmptyFilter, MaxErrorCalls, 1)
    \/ SomeFanOutSettles(LookupIds)
    \/ \E id \in LookupIds : GetSourceError(id)
    \/ HourTick

SpecErrors == Init /\ [][NextErrors]_vars

\* direct callers that list their sources, and sources being switched off
NextFetch ==
    \/ \E f \in FetchFilters : GetAggregatedNews(f, MaxFetchCalls, 1)
    \/ \E i \in 1..Len(ToggleOrder) : i = toggles + 1 /\ UpdateSource(ToggleOrder[i], FALSE)
    \/ SomeFanOutSettles({})

SpecFetch == Init /\ [][NextFetch]_vars

\* the list methods of the two clients called with any limit
NextLimit ==
    \/ \E limit \in Limits : GetLatestArticles(limit)
    \/ \E limit \in Limits : GetTrendingRepositories(limit)
    \/ \E g \in GetIds, resp \in LimitOutcomes : HttpResponds(g, resp)

SpecLimit == Init /\ [][NextLimit]_vars

\* direct callers, overlapping, around updateSource calls of every kind
NextToggle ==
    \/ \E f \in Filters : GetAggregatedNews(f, MaxToggleCalls, MaxPending)
    \/ \E t \in ToggleInputs : UpdateSource(t.id, t.enabled)
    \/ SomeFanOutSettles({})

SpecToggle == Init /\ [][NextToggle]_vars

\* filters of direct callers: every enabled source, or no source at all
FrameFilters == {EmptyFilter, [EmptyFilter EXCEPT !.sources = <<>>]}

\* direct callers, updateSource calls and error lookups over hours, with
\* providers that may fail
NextFrame ==
    \/ \E f \in FrameFilters : GetAggregatedNews(f, MaxFrameCalls, 1)
    \/ \E t \in ToggleInputs : toggles < MaxFrameToggles /\ UpdateSource(t.id, t.enabled)
    \/ SomeFanOutSettles({"devto", "github"})
    \/ GetSourceError("devto")
    \/ HourTick

SpecFrame == Init /\ [][NextFrame]_vars

-----------------------------------------------------------------------------
(* Properties *)

Range(seq) == {seq[i] : i \in 1..Len(seq)}

HasItemOf(items, s) == \E i \in 1..Len(items) : items[i].source = s

FailedSources(call) == {s \in Sources : call.fetch[s].status = "rejected"}
SucceededSources(call) == {s \in Sources : call.fetch[s].status = "fulfilled"}

\* item passes the search and tag conditions of the filter
PassesFilter(item, filter) ==
    /\ filter.search = <<>> \/ matchesSearch(item, toLowerCase(filter.search))
    /\ filter.tags = AbsentTags \/ filter.tags = <<>> \/ matchesTags(item, filter.tags)

\* the items a fan-out owes its caller: those of the sources that succeeded
ExpectedItems(call) ==
    {item \in UNION {Range(call.fetch[s].items) : s \in SucceededSources(call)} :
        PassesFilter(item, call.filter)}

NewestFirst(items) ==
    \A i, j \in 1..Len(items) : i < j => items[i].timestamp >= items[j].timestamp

\* call.result is exactly the filtered, sorted items of the succeeding sources
ReturnsSucceeding(call) ==
    /\ Range(call.result) = ExpectedItems(call)
    /\ Len(call.result) = Cardinality(ExpectedItems(call))
    /\ NewestFirst(call.result)

\* in this step call c comes back from a fan-out
FanOutReturns(c) ==
    /\ calls[c].st \in {"free", "pending"}
    /\ Settled(calls'[c])
    /\ calls'[c].path = "fanout"

\* in this step call c is made
CallStarts(c) == calls[c].st = "free" /\ calls'[c].st # "free"

\* C1: a fan-out over three sources in which exactly one fetch fails resolves
\* with exactly the filtered, sorted items of the two others, and the error
\* table then holds exactly one record
C1_OneFailureOneRecord ==
    [][\A c \in CallIds :
          /\ FanOutReturns(c)
          /\ Len(calls'[c].ids) = 3
          /\ Cardinality(FailedSources(calls'[c])) = 1
          => /\ calls'[c].st = "resolved"
             /\ ReturnsSucceeding(calls'[c])
             /\ Cardinality(DOMAIN sourceErrors') = 1]_vars

\* C2: no failure of a source client makes getAggregatedNews reject; whatever
\* subset of the sources fails, the call resolves with the items of the ones
\* that succeeded, and with the empty list when all fail
C2_NeverRejects ==
    \A c \in CallIds :
       /\ calls[c].st # "rejected"
       /\ calls[c].st = "resolved" /\ calls[c].path = "fanout"
          => /\ ReturnsSucceeding(calls[c])
             /\ SucceededSources(calls[c]) = {} => calls[c].result = <<>>

\* every fetch of a three-source fan-out has failed and the call has resolved
C2_AllFailed ==
    \E c \in CallIds :
       /\ calls[c].st = "resolved"
       /\ calls[c].path = "fanout"
       /\ FailedSources(calls[c]) = Sources
       /\ calls[c].result = <<>>

\* C3: when a fan-out returns, getSourceError(id) is non-null for every source
\* whose fetch failed in it
C3_FailuresRecorded ==
    [][\A c \in CallIds :
          FanOutReturns(c)
          => \A s \in FailedSources(calls'[c]) :
                getSourceError(sourceErrors', s, now').message # "<null>"]_vars

\* C4: a call made with filter.sources omitted while source s is switched off
\* returns no item of s, whatever was cached before the toggle and whatever a
\* fan-out that started before the toggle stores after it
C4_DisabledSourceAbsent ==
    \A c \in CallIds :
       calls[c].st = "resolved" /\ calls[c].filter.sources = Omitted
       => \A s \in calls[c].disabled : ~HasItemOf(calls[c].result, s)

\* a fan-out that started before devto was switched off has come back after
\* the toggle with a devto item (and stored it), and a call made after that,
\* for the same search, has resolved
C4_LateFanOutThenCall ==
    \E c, d \in CallIds :
       /\ calls[c].st = "resolved" /\ calls[c].path = "fanout"
       /\ calls[c].disabled = {}
       /\ ~calls[c].toggledSince
       /\ HasItemOf(calls[c].result, "devto")
       /\ calls[d].st = "resolved"
       /\ calls[d].filter.sources = Omitted
       /\ calls[d].filter.search = calls[c].filter.search
       /\ "devto" \in calls[d].disabled
       /\ c \in calls[d].doneBefore
       /\ calls[d].result # <<>>

\* the two calls ask for the same sources, search and tags
SameQuery(a, b) ==
    /\ SortIds(a.ids) = SortIds(b.ids)
    /\ a.filter.search = b.filter.search
    /\ a.key.tags = b.key.tags

\* call d was made after call c had resolved, less than cacheDuration after
\* the list c returned was stored, with no updateSource in between
Repeats(c, d) ==
    /\ c # d
    /\ calls[c].st = "resolved"
    /\ calls[d].st # "free"
    /\ c \in calls[d].doneBefore
    /\ c \notin calls[d].toggledBefore
    /\ SameQuery(calls[c], calls[d])
    /\ calls[d].startedAt - calls[c].cachedAt < cacheDuration

\* the second call starts no fan-out and returns what the first returned
ServedFromFirst(c, d) ==
    /\ calls[d].path # "fanout"
    /\ calls[d].st = "resolved"
    /\ calls[d].result = calls[c].result

\* C5 as stated: the second of two sequential calls for the same query,
\* within the TTL and with no updateSource in between, starts no fan-out and
\* returns the list the first returned
C5_SecondReturnsFirst ==
    \A c, d \in CallIds : Repeats(c, d) => ServedFromFirst(c, d)

\* C5 amended: ... unless a fan-out for the same key, started before the first
\* call resolved, has stored its own list in between
C5_SecondReturnsFirstUnlessOverwritten ==
    \A c, d \in CallIds :
       Repeats(c, d) /\ c \notin calls[d].overwrittenBefore => ServedFromFirst(c, d)

\* a fan-out has resolved with a non-empty list and a later call for the same
\* query was served that list from the cache
C5_RepeatServed ==
    \E c, d \in CallIds :
       /\ Repeats(c, d)
       /\ c \notin calls[d].overwrittenBefore
       /\ calls[c].path = "fanout"
       /\ calls[d].path = "hit"
       /\ calls[d].result # <<>>

\* C6: a call whose key has an aggregate entry of age < cacheDuration returns
\* that entry's list and leaves it alone; with an entry of age >= cacheDuration
\* (the boundary included) it ignores the entry and fans out
C6_FreshUntilTTL ==
    [][\A c \in CallIds :
          CallStarts(c) /\ calls'[c].path # "empty" /\ calls'[c].key \in DOMAIN cache
          => LET entry == cache[calls'[c].key]
                 age == now - entry.timestamp
             IN /\ age < cacheDuration
                   => /\ calls'[c].path = "hit"
                      /\ calls'[c].st = "resolved"
                      /\ calls'[c].result = entry.data
                      /\ cache' = cache
                /\ age >= cacheDuration
                   => /\ calls'[c].path = "fanout"
                      /\ \A s \in Range(calls'[c].ids) :
                            calls'[c].fetch[s].status # "none"]_vars

\* a call made exactly cacheDuration after the list for its query was stored
\* has fanned out
C6_ExpiredAtTTL ==
    \E c, d \in CallIds :
       /\ calls[c].st = "resolved" /\ calls[c].path = "fanout"
       /\ c \in calls[d].doneBefore
       /\ SameQuery(calls[c], calls[d])
       /\ calls[d].startedAt - calls[c].cachedAt = cacheDuration
       /\ calls[d].path = "fanout"

\* the sweep from before to after, at time t with the given TTL: nothing
\* added, nothing altered, nothing deleted that a lookup would still return
SweepIsSafe(before, after, t, ttl) ==
    /\ DOMAIN after \subseteq DOMAIN before
    /\ \A k \in DOMAIN after : after[k] = before[k]
    /\ \A k \in DOMAIN before : t - before[k].timestamp < ttl => k \in DOMAIN after

\* C7: in both cache layers a lookup never returns an entry of age >= TTL, and
\* a clearExpiredCache sweep never removes or alters an entry that a lookup
\* would still return
C7_LookupsAndSweeps ==
    [][/\ \A c \in CallIds :
             CallStarts(c)
             => /\ calls'[c].path = "hit"
                   => /\ calls'[c].key \in DOMAIN cache
                      /\ now - cache[calls'[c].key].timestamp < cacheDuration
                /\ \A s \in Sources :
                      calls'[c].fetch[s].status = "fulfilled"
                      => /\ UrlOf(s) \in DOMAIN clientCache[s]
                         /\ now - clientCache[s][UrlOf(s)].timestamp < clientCacheDuration
       /\ ClearExpiredCache => SweepIsSafe(cache, cache', now, cacheDuration)
       /\ \A s \in Sources :
             ClientClearExpiredCache(s)
             => SweepIsSafe(clientCache[s], clientCache'[s], now, clientCacheDuration)]_vars

\* the sweep has deleted the list of a finished fan-out while an entry that a
\* lookup would still return is in the cache
C7_SweptAndKept ==
    \E c \in CallIds :
       /\ calls[c].st = "resolved" /\ calls[c].path = "fanout"
       /\ calls[c].key \notin DOMAIN cache
       /\ \E k \in DOMAIN cache : getFromCache(cache, k, now).hit

\* the source set the call resolves to is empty
ResolvesToNothing(filter) ==
    \/ filter.sources = <<>>
    \/ filter.sources = Omitted /\ \A s \in Sources : ~isEnabled(sources, s)

\* C8: a call whose resolved source set is empty returns [] at once, starts no
\* fetch and changes neither the aggregate cache nor the error table
C8_EmptySetShortCircuit ==
    [][\A c \in CallIds :
          CallStarts(c) /\ ResolvesToNothing(calls'[c].filter)
          => /\ calls'[c].st = "resolved"
             /\ calls'[c].result = <<>>
             /\ \A s \in Sources : calls'[c].fetch[s].status = "none"
             /\ cache' = cache
             /\ sourceErrors' = sourceErrors]_vars

\* a call with filter.sources omitted was made with every source switched off
\* and has returned []
C8_AllDisabled ==
    \E c \in CallIds :
       /\ calls[c].st = "resolved"
       /\ calls[c].filter.sources = Omitted
       /\ calls[c].disabled = Sources
       /\ calls[c].result = <<>>

\* C9: the newsService singleton never has two getAggregatedNews fetch cycles
\* for the same cache key in flight at once, whichever useNews consumers
\* trigger them
C9_OneCyclePerKey ==
    \A c, d \in CallIds :
       c # d /\ calls[c].st = "pending" /\ calls[d].st = "pending"
       => calls[c].key # calls[d].key

\* C10: once no refresh of a hook is in flight any more, its news list holds
\* no item of a source that was switched off through it
C10_NewsReflectsToggle ==
    \A h \in HookIds :
       hooks[h].mounted /\ ~hooks[h].isRefreshing
       => \A s \in Sources : ~isEnabled(hooks[h].sources, s) => ~HasItemOf(hooks[h].news, s)

\* C11: a useNews instance never has more than one interval timer running;
\* setRefreshInterval cancels the timer that was running before it creates a
\* new one, and after setRefreshInterval(null) or a non-positive interval
\* none is running
C11_AtMostOneTimer ==
    [][\A h \in HookIds :
          /\ Cardinality(timers'[h]) <= 1
          /\ \A arg \in IntervalArgs :
                SetRefreshInterval(h, arg)
                => /\ timers[h] \cap timers'[h] = {}
                   /\ arg.isNull \/ arg.ms <= 0 => timers'[h] = {}]_vars

\* the Sidebar has set an interval twice; only the second timer is running
C11_TimerReplaced ==
    /\ ~hooks["home"].mounted /\ ~hooks["home"].discarded
    /\ timerSeq = 2
    /\ hooks["sidebar"].intervalIdRef = 2
    /\ timers["sidebar"] = {2}

\* C12: once the component of a useNews instance is unmounted none of its
\* timers is running and no timer of it fires any more
C12_NoTimerAfterUnmount ==
    [][\A h \in HookIds :
          /\ hooks'[h].discarded => timers'[h] = {}
          /\ hooks[h].discarded => \A id \in 1..MaxTimers : ~TimerFires(h, id)]_vars

\* the Sidebar was unmounted while its timer was running
C12_UnmountedWithTimer ==
    /\ hooks["sidebar"].discarded
    /\ hooks["sidebar"].timersAtUnmount # {}
    /\ timers["sidebar"] = {}

\* C13: a get whose every HTTP attempt fails with a retryable error issues at
\* most 3 attempts, waits the configured delay before each attempt after the
\* first, and rejects with the error of the last attempt
C13_AtMostThreeAttempts ==
    \A g \in GetIds :
       gets[g].st = "rejected" /\ gets[g].error.retryable
       => /\ gets[g].attempts <= 3
          /\ Len(gets[g].waited) = gets[g].attempts - 1
          /\ \A i \in 1..Len(gets[g].waited) : gets[g].waited[i] >= retryAfterMs
          /\ gets[g].error.status = gets[g].lastResponse.status

\* C14: a response that is not 2xx makes get reject with an ApiError that
\* carries the response status and the client's source id; retryable holds
\* exactly for 429 and 5xx, and any other 4xx response ends the get at once
C14_TypedHttpError ==
    \A g \in GetIds :
       gets[g].lastResponse.kind = "status"
       => LET status == gets[g].lastResponse.status
          IN /\ status \in 400..499 /\ status # 429 => gets[g].st = "rejected"
             /\ gets[g].st = "rejected"
                => /\ gets[g].error.status = status
                   /\ gets[g].error.source = gets[g].client
                   /\ gets[g].error.retryable <=> (status = 429 \/ status >= 500)

\* C15: a rejected fetch is surfaced as an ApiError with status 0 and
\* retryable = true, after the same attempt budget as a 429 or 5xx
C15_TransportRetried ==
    \A g \in GetIds :
       gets[g].st = "rejected" /\ gets[g].lastResponse.kind = "transport"
       => /\ gets[g].error.status = 0
          /\ gets[g].error.retryable
          /\ gets[g].retries = 0

\* the parameters that have a value
GivenParams(params) == {params[i] : i \in {j \in 1..Len(params) : params[j][2] # NoValue}}

\* C16: a get for a URL whose body was stored less than 5 minutes ago returns
\* that body, whatever it is, without an HTTP call and without taking a
\* rate-limit slot; gets that differ in a query parameter have different keys
C16_ServedFromRequestCache ==
    [][\A g \in GetIds :
          gets[g].st = "free" /\ gets'[g].st # "free"
          => LET s == gets'[g].client
                 url == gets'[g].url
             IN /\ url \in DOMAIN clientCache[s]
                   /\ now - clientCache[s][url].timestamp < clientCacheDuration
                   => /\ gets'[g].st = "resolved"
                      /\ gets'[g].data = clientCache[s][url].data
                      /\ gets'[g].attempts = 0
                      /\ rateLimitState' = rateLimitState
                /\ \A h \in GetIds :
                      /\ gets[h].st # "free"
                      /\ gets[h].client = s
                      /\ GivenParams(gets[h].params) # GivenParams(gets'[g].params)
                      => gets[h].url # url]_vars

\* C17: every HTTP call of a get comes to an end, so every get settles
C17_GetSettles ==
    \A g \in GetIds :
       (gets[g].st = "http") ~> (gets[g].st \in {"resolved", "rejected"})

\* position of a source in the fan-out: hackernews, devto, github
FetchRank(s) == CHOOSE i \in 1..Len(SourceIds) : SourceIds[i] = s

\* the items source s answers with, in upstream order
UpstreamItems(s) == ItemsOf(s, CHOOSE p \in Payloads(s) : TRUE)

UpstreamIndex(item) ==
    CHOOSE i \in 1..Len(UpstreamItems(item.source)) : UpstreamItems(item.source)[i] = item

\* everything the listed sources answer with
FetchedItems(ids) == UNION {Range(UpstreamItems(s)) : s \in Range(ids) \cap Sources}

\* a comes before b among items of one timestamp
TieOrder(a, b) ==
    \/ FetchRank(a.source) < FetchRank(b.source)
    \/ a.source = b.source /\ UpstreamIndex(a) < UpstreamIndex(b)

Returned(call) == call.st = "resolved" /\ call.path \in {"fanout", "hit"}

\* C18: every returned list, built or served from cache, is newest first;
\* items of one timestamp are in fan-out order (hackernews, devto, github) and
\* then upstream order; the list does not depend on the order of the ids in
\* filter.sources or on which source had settled first
C18_NewestFirstStableTies ==
    \A c \in CallIds :
       Returned(calls[c])
       => LET items == calls[c].result
          IN /\ NewestFirst(items)
             /\ \A i, j \in 1..Len(items) :
                   i < j /\ items[i].timestamp = items[j].timestamp
                   => TieOrder(items[i], items[j])
             /\ \A d \in CallIds :
                   /\ Returned(calls[d])
                   /\ Range(calls[d].ids) = Range(calls[c].ids)
                   /\ calls[d].filter.search = calls[c].filter.search
                   /\ calls[d].filter.tags = calls[c].filter.tags
                   => calls[d].result = items

\* a list asked for as github, devto has its tie in fan-out order, and a list
\* of all sources, two of them settled from the request cache, has both ties
C18_TiesBothWays ==
    /\ calls[1].st = "resolved" /\ calls[1].path = "fanout"
    /\ calls[1].ids = <<"github", "devto">>
    /\ Len(calls[1].result) = 2
    /\ calls[1].result[1].timestamp = calls[1].result[2].timestamp
    /\ calls[2].st = "resolved" /\ calls[2].path = "fanout"
    /\ calls[2].ids = <<"github", "hackernews", "devto">>
    /\ Len(calls[2].result) = 5

\* text contains query when case is ignored; an absent text contains nothing
ContainsIgnoringCase(text, query) ==
    /\ text # Absent
    /\ \E k \in 0..Len(text) :
          /\ k + Len(query) <= Len(text)
          /\ \A j \in 1..Len(query) : ToLowerChar(text[k + j]) = ToLowerChar(query[j])

SearchMatches(item, query) ==
    \/ ContainsIgnoringCase(item.title, query)
    \/ ContainsIgnoringCase(item.description, query)
    \/ ContainsIgnoringCase(item.content, query)

NoTagFilter(filter) == filter.tags = AbsentTags \/ filter.tags = <<>>

\* C19: with a non-empty search string (and no tag filter) the returned items
\* are exactly the fetched items whose title, description or content contains
\* the string, case ignored
C19_SearchExact ==
    \A c \in CallIds :
       /\ Returned(calls[c])
       /\ calls[c].filter.search # <<>>
       /\ NoTagFilter(calls[c].filter)
       => /\ Range(calls[c].result)
               = {item \in FetchedItems(calls[c].ids) :
                     SearchMatches(item, calls[c].filter.search)}
          /\ Len(calls[c].result) = Cardinality(Range(calls[c].result))

\* a search in capitals that matches a title in capitals, a description and a
\* content in small letters, and leaves two items out
C19_SearchedBothCases ==
    \E c \in CallIds :
       /\ calls[c].st = "resolved" /\ calls[c].path = "fanout"
       /\ calls[c].filter.search = Rust
       /\ Len(calls[c].result) = 3
       /\ Cardinality(FetchedItems(calls[c].ids)) = 5

\* some tag of the item equals some tag of the filter, case ignored
TagsIntersect(item, tags) ==
    /\ item.tags # AbsentTags
    /\ \E i \in 1..Len(item.tags), j \in 1..Len(tags) :
          toLowerCase(item.tags[i]) = toLowerCase(tags[j])

\* C20: with a non-empty filter.tags (and no search string) the returned items
\* are exactly the fetched items one of whose tags equals one of the filter's
\* tags when the case of both is ignored
C20_TagsExact ==
    \A c \in CallIds :
       /\ Returned(calls[c])
       /\ ~NoTagFilter(calls[c].filter)
       /\ calls[c].filter.search = <<>>
       => Range(calls[c].result)
             = {item \in FetchedItems(calls[c].ids) :
                   TagsIntersect(item, calls[c].filter.tags)}

\* how often x occurs in seq
Count(seq, x) == Cardinality({i \in 1..Len(seq) : seq[i] = x})

\* the items of the fetches that succeeded, one list after the other
Concatenation(call) == collectItems(promisesOf(SourceIds, call.fetch))

\* the keys under which a failure of source s is filed in the error table
RecordKeysOf(s) == {s, clientSource(s)}

\* C21: a fan-out in which every fetch succeeds, made with no search string
\* and no tag filter, returns a permutation of the concatenation of the
\* sources' lists, and afterwards no source it resolved has an error record
C21_AllSucceedNothingLost ==
    [][\A c \in CallIds :
          /\ FanOutReturns(c)
          /\ FailedSources(calls'[c]) = {}
          /\ calls'[c].filter.search = <<>>
          /\ NoTagFilter(calls'[c].filter)
          => /\ calls'[c].st = "resolved"
             /\ Len(calls'[c].result) = Len(Concatenation(calls'[c]))
             /\ \A x \in Range(Concatenation(calls'[c])) :
                   Count(calls'[c].result, x) = Count(Concatenation(calls'[c]), x)
             /\ \A s \in SucceededSources(calls'[c]) :
                   RecordKeysOf(s) \cap DOMAIN sourceErrors' = {}]_vars

\* C22: a returned list never holds two items with the same (source, id)
\* pair, also when a response repeats a record; items of different sources
\* that have the same id are both there
C22_NoDuplicateIdentity ==
    \A c \in CallIds :
       Returned(calls[c])
       => LET items == calls[c].result
          IN /\ \A i, j \in 1..Len(items) :
                   i < j => ~(items[i].source = items[j].source /\ items[i].id = items[j].id)
             /\ calls[c].path = "fanout"
                => \A s \in SucceededSources(calls[c]) :
                      \A x \in Range(calls[c].fetch[s].items) :
                         \E i \in 1..Len(items) :
                            items[i].source = s /\ items[i].id = x.id

\* the upstream field a record's timestamp and title are taken from
UpstreamTimestamp(s, r) ==
    CASE s = "hackernews" -> r.timestamp
      [] s = "devto" -> r.published_at
      [] s = "github" -> r.created_at

UpstreamTitle(s, r) == IF s = "github" THEN r.name ELSE r.title

C23_TableShowsLatestOutcome ==
    [][\A c \in CallIds :
          FanOutReturns(c)
          => \A s \in Sources :
                LET keys == RecordKeysOf(s) \cap DOMAIN sourceErrors'
                IN /\ Cardinality(keys) <= 1
                   /\ calls'[c].fetch[s].status = "fulfilled" => keys = {}
                   /\ calls'[c].fetch[s].status = "rejected"
                      => \E k \in keys :
                            sourceErrors'[k] =
                               [message |-> calls'[c].fetch[s].reason.message,
                                timestamp |-> now']]_vars

\* C24: getSourceError(id) returns the stored message while the record is at
\* most one hour old and leaves the table alone; for a record older than one
\* hour it returns null and removes the record
C24_RecordExpiresAfterAnHour ==
    [][\A id \in LookupIds :
          GetSourceError(id) /\ lastLookup'.id = id /\ id \in DOMAIN sourceErrors
          => LET age == now - sourceErrors[id].timestamp
             IN /\ age <= 60 * 60 * 1000
                   => /\ lastLookup'.message = sourceErrors[id].message
                      /\ sourceErrors' = sourceErrors
                /\ age > 60 * 60 * 1000
                   => /\ lastLookup'.message = "<null>"
                      /\ id \notin DOMAIN sourceErrors'
                      /\ \A k \in DOMAIN sourceErrors \ {id} :
                            k \in DOMAIN sourceErrors' /\ sourceErrors'[k] = sourceErrors[k]]_vars

\* the record of a dev.to failure was returned when exactly one hour old and
\* has now, a millisecond later and with no dev.to success, been removed
C24_RemovedAfterTheHour ==
    /\ lastLookup.id = "devto"
    /\ lastLookup.found # <<>>
    /\ lastLookup.at - lastLookup.found[1].timestamp = 60 * 60 * 1000 + 1
    /\ lastLookup.message = "<null>"
    /\ "devto" \notin DOMAIN sourceErrors
    /\ \A c \in CallIds : calls[c].fetch["devto"].status # "fulfilled"

\* the sources a call has asked a client for
FetchedSources(call) == {s \in Sources : call.fetch[s].status # "none"}

\* C25: on a cache miss the sources fetched are exactly the known sources
\* listed in filter.sources when it is given, and exactly the sources enabled
\* in the registry when it is omitted; an unknown id causes no fetch, no error
\* record and no rejection
C25_FetchesExactlyTheResolved ==
    /\ sourceErrors = EmptyMap
    /\ \A c \in CallIds :
          /\ calls[c].st # "rejected"
          /\ calls[c].path = "fanout"
             => FetchedSources(calls[c])
                   = IF calls[c].filter.sources # Omitted
                     THEN Range(calls[c].filter.sources) \cap Sources
                     ELSE Sources \ calls[c].disabled
          /\ calls[c].path \in {"hit", "empty"} => FetchedSources(calls[c]) = {}

\* with dev.to switched off, a call that lists dev.to and an unknown id has
\* fetched dev.to alone, and a call without a source list the two others
C25_ListedAndEnabled ==
    /\ ~isEnabled(sources, "devto") /\ isEnabled(sources, "github")
    /\ calls[1].path = "fanout" /\ calls[1].st = "resolved"
    /\ calls[1].filter.sources = <<"devto", "reddit">>
    /\ calls[1].disabled = {"devto"}
    /\ FetchedSources(calls[1]) = {"devto"}
    /\ calls[2].path = "fanout" /\ calls[2].st = "resolved"
    /\ calls[2].filter.sources = Omitted
    /\ FetchedSources(calls[2]) = {"hackernews", "github"}

TagSet(filter) == IF filter.tags = AbsentTags THEN {} ELSE Range(filter.tags)

\* the two calls resolve the same set of sources and have the same search
\* string up to letter case and the same set of tags
SameKeyInputs(a, b) ==
    /\ Range(a.ids) = Range(b.ids)
    /\ toLowerCase(a.filter.search) = toLowerCase(b.filter.search)
    /\ TagSet(a.filter) = TagSet(b.filter)

Keyed(call) == call.path \in {"fanout", "hit"}

\* C26: two calls whose filters differ only in the order of the sources, in
\* the order of the tags or in the letter case of the search string have the
\* same cache key, and the second of them, made within the TTL after the
\* first has resolved, is a cache hit
C26_KeyIgnoresOrderAndCase ==
    \A c, d \in CallIds :
       Keyed(calls[c]) /\ Keyed(calls[d]) /\ SameKeyInputs(calls[c], calls[d])
       => /\ calls[c].key = calls[d].key
          /\ c \in calls[d].doneBefore
             /\ calls[d].startedAt - calls[c].cachedAt < cacheDuration
             => calls[d].path = "hit"

\* the per_page values of a query string
PerPageOf(query) == {query[i][2] : i \in {j \in 1..Len(query) : query[j][1] = "per_page"}}

\* C28: whatever limit getLatestArticles or getTrendingRepositories is called
\* with, the per_page value sent upstream lies in 1..100
C28_PerPageClamped ==
    \A g \in GetIds :
       gets[g].st # "free"
       => /\ PerPageOf(gets[g].url.query) # {}
          /\ PerPageOf(gets[g].url.query) \subseteq {toString(n) : n \in 1..100}

\* call c came back from a fan-out in which a source failed
Partial(c) == calls[c].path = "fanout" /\ FailedSources(calls[c]) # {}

\* the record that the failure of s in call c left is in table errs
RecordInPlace(errs, c, s) ==
    \E k \in RecordKeysOf(s) \cap DOMAIN errs :
       errs[k] = [message |-> calls[c].fetch[s].reason.message,
                  timestamp |-> calls[c].cachedAt]

\* a fan-out other than c that fetched s has come back before d was made
\* and after c was
FetchedAgain(c, d, s) ==
    \E e \in calls[d].doneBefore \ (calls[c].doneBefore \cup {c}) :
       calls[e].path = "fanout" /\ s \in FetchedSources(calls[e])

\* C29 as stated: a call made after a partial result was stored under its
\* key, before the entry expires and with no updateSource in between, starts
\* no fan-out and returns the partial list, and the record of each failed
\* source is still in the error table
C29_PartialServedRecordKept ==
    [][\A c, d \in CallIds :
          CallStarts(d) /\ Partial(c) /\ Repeats(c, d)'
          => /\ ServedFromFirst(c, d)'
             /\ \A s \in FailedSources(calls[c]) : RecordInPlace(sourceErrors', c, s)]_vars

\* C29 amended: ... returns the partial list unless a fan-out for the same
\* key, started before the first call resolved, has stored its own list in
\* between; the record of a failed source is still there unless another
\* fan-out that fetched that source has come back since
C29_PartialServedUnlessRefetched ==
    [][\A c, d \in CallIds :
          CallStarts(d) /\ Partial(c) /\ Repeats(c, d)'
          => /\ c \notin calls'[d].overwrittenBefore => ServedFromFirst(c, d)'
             /\ \A s \in FailedSources(calls[c]) :
                   \/ RecordInPlace(sourceErrors', c, s)
                   \/ FetchedAgain(c, d, s)']_vars

\* a fan-out in which dev.to failed has returned the items of the others, and
\* a later call for the same query was served that list from the cache while
\* the record of the dev.to failure was still in the table
C29_PartialListServed ==
    \E c, d \in CallIds :
       /\ Partial(c) /\ Repeats(c, d)
       /\ c \notin calls[d].overwrittenBefore
       /\ calls[d].path = "hit"
       /\ calls[d].result = calls[c].result
       /\ calls[c].result # <<>>
       /\ calls[d].fetch["devto"].status = "none"
       /\ RecordInPlace(sourceErrors, c, "devto")

\* C30: every updateSource call, also one that changes no flag or names an
\* unknown id, replaces the registry and empties the aggregate cache in the
\* same step; so a call served from the cache is served a list stored after
\* the last updateSource
C30_ToggleEmptiesCache ==
    [][/\ \A t \in ToggleInputs :
             UpdateSource(t.id, t.enabled)
             => /\ cache' = EmptyMap
                /\ \A s \in Sources :
                      isEnabled(sources', s) =
                         IF s = t.id THEN t.enabled ELSE isEnabled(sources, s)
       /\ \A c \in CallIds :
             CallStarts(c) /\ calls'[c].path = "hit"
             => \E e \in calls'[c].doneBefore \ calls'[c].toggledBefore :
                   /\ calls[e].path = "fanout"
                   /\ calls[e].key = calls'[c].key
                   /\ calls[e].result = calls'[c].result]_vars

\* updateSource calls that changed nothing in the registry have emptied the
\* cache: the list a fan-out stored was not served to the next call for the
\* same key, which fanned out again
C30_ClearedWithoutChange ==
    \E c, d \in CallIds :
       /\ toggles > 0
       /\ \A s \in Sources : isEnabled(sources, s)
       /\ cache # EmptyMap
       /\ calls[c].st = "resolved" /\ calls[c].path = "fanout"
       /\ calls[d].st = "resolved" /\ calls[d].path = "fanout"
       /\ c \in calls[d].toggledBefore
       /\ calls[d].key = calls[c].key

\* the ids and names of a registry, in its order
RegistryShape(registry) ==
    [i \in 1..Len(registry) |-> [id |-> registry[i].id, name |-> registry[i].name]]

\* C31: whatever updateSource calls were made, also for ids that are not
\* registered, getSources returns the three initial sources with their ids,
\* names and order; updateSource(id, e) sets the flag of `id` to e and leaves
\* every other flag as it was
C31_RegistryShapeKept ==
    /\ [](RegistryShape(sources) = RegistryShape(InitialSources))
    /\ [][\A t \in ToggleInputs :
             UpdateSource(t.id, t.enabled)
             => /\ Len(sources') = Len(sources)
                /\ \A i \in 1..Len(sources) :
                      sources'[i].enabled =
                         IF sources[i].id = t.id THEN t.enabled
                                                 ELSE sources[i].enabled]_vars

\* updateSource was called more than once and exactly dev.to is switched off
C31_ToggledMoreThanOnce ==
    /\ toggles >= 2
    /\ {s \in Sources : ~isEnabled(sources, s)} = {"devto"}
    /\ Len(sources) = 3

\* the keys of the error table whose record differs before and after the step
ChangedErrorKeys ==
    {k \in DOMAIN sourceErrors \cup DOMAIN sourceErrors' :
        \/ k \notin DOMAIN sourceErrors
        \/ k \notin DOMAIN sourceErrors'
        \/ sourceErrors[k] # sourceErrors'[k]}

\* C32: the record of a source changes only when a fan-out that fetched that
\* source returns (set if the fetch failed, deleted if it succeeded) or when
\* a lookup finds it older than the hour; updateSource, calls served from the
\* aggregate cache and calls that resolve to no source leave the error table
\* as it was, and only updateSource changes an enabled flag
C32_ErrorTableFrame ==
    [][/\ \A k \in ChangedErrorKeys :
             \/ \E c \in CallIds :
                   /\ FanOutReturns(c)
                   /\ \E s \in FetchedSources(calls'[c]) :
                         /\ k \in RecordKeysOf(s)
                         /\ calls'[c].fetch[s].status = "rejected"
                            => k \in DOMAIN sourceErrors'
                         /\ calls'[c].fetch[s].status = "fulfilled"
                            => k \notin DOMAIN sourceErrors'
             \/ \E id \in Sources :
                   /\ GetSourceError(id)
                   /\ k = id
                   /\ k \notin DOMAIN sourceErrors'
                   /\ now - sourceErrors[k].timestamp > errorMaxAge
       /\ \A t \in ToggleInputs :
             UpdateSource(t.id, t.enabled) => sourceErrors' = sourceErrors
       /\ \A c \in CallIds :
             CallStarts(c) /\ calls'[c].path \in {"hit", "empty"}
             => sourceErrors' = sourceErrors
       /\ sources' # sources
          => \E t \in ToggleInputs : UpdateSource(t.id, t.enabled)]_vars

\* a record written by a failed fetch is still in the table after an
\* updateSource call, a call served from the cache and a call that resolved
\* to no source
C32_RecordOutlivesTheRest ==
    \E c, d, e \in CallIds :
       /\ calls[c].st = "resolved" /\ calls[c].path = "fanout"
       /\ "devto" \in FailedSources(calls[c])
       /\ calls[d].st = "resolved" /\ calls[d].path = "hit"
       /\ calls[e].st = "resolved" /\ calls[e].path = "empty"
       /\ toggles > 0
       /\ "devto" \in DOMAIN sourceErrors
       /\ sourceErrors["devto"].timestamp = calls[c].startedAt

\* in this step call c, made by hook h, settles
RefreshSettles(h, c) ==
    /\ calls[c].st \in {"free", "pending"}
    /\ Settled(calls'[c])
    /\ calls'[c].owner = h
    /\ hooks[h].mounted \/ calls[c].st = "free"

\* the ids listed in a hook's sourceErrors state
ListedErrors(list) == {list[i].id : i \in 1..Len(list)}

\* C33: a refresh of useNews in which some or all sources fail leaves `error`
\* null and shows the failures in sourceErrors only, which holds one entry
\* for each registered source whose getSourceError is not null; error is
\* non-null only when getAggregatedNews itself rejected, and every refresh
\* that passes the guard sets error to null
C33_FailuresInSourceErrorsOnly ==
    /\ [](\A h \in HookIds :
             hooks[h].error # NoError
             => \E c \in CallIds : calls[c].owner = h /\ calls[c].st = "rejected")
    /\ [][\A h \in HookIds, c \in CallIds :
             /\ CallStarts(c) /\ calls'[c].owner = h /\ calls'[c].st = "pending"
                => hooks'[h].error = NoError
             /\ RefreshSettles(h, c) /\ calls'[c].st = "resolved"
                => /\ hooks'[h].error = NoError
                   /\ Len(hooks'[h].sourceErrors) =
                         Cardinality(ListedErrors(hooks'[h].sourceErrors))
                   /\ \A s \in Sources :
                         LET message == getSourceError(sourceErrors', s, now).message
                         IN IF message = "<null>"
                            THEN s \notin ListedErrors(hooks'[h].sourceErrors)
                            ELSE \E i \in 1..Len(hooks'[h].sourceErrors) :
                                    hooks'[h].sourceErrors[i] =
                                       [id |-> s, message |-> message]]_vars

\* a refresh whose three fetches all failed has come back: error is null
\* and sourceErrors has entries
C33_AllFailedErrorNull ==
    \E h \in HookIds, c \in CallIds :
       /\ hooks[h].mounted /\ ~hooks[h].isRefreshing
       /\ calls[c].owner = h /\ calls[c].st = "resolved"
       /\ FailedSources(calls[c]) = Sources
       /\ hooks[h].error = NoError
       /\ hooks[h].news = <<>>
       /\ "devto" \in ListedErrors(hooks[h].sourceErrors)

\* in this step a refreshNews call of hook h returned at the guard
RefreshDropped(h) == hooks'[h].drops = hooks[h].drops + 1

\* C37: a refreshNews call made on a useNews instance while a refresh of that
\* instance is in flight is dropped: it starts no getAggregatedNews call and
\* changes no state of the hook or of the service; no call of an instance
\* starts while one of that instance is in flight
C37_SecondRefreshDropped ==
    [][\A h \in HookIds :
          /\ RefreshDropped(h)
             => /\ hooks[h].isRefreshing
                /\ calls' = calls
                /\ hooks' = [hooks EXCEPT ![h].drops = @ + 1]
                /\ cache' = cache /\ sourceErrors' = sourceErrors
                /\ sources' = sources
          /\ \A c \in CallIds :
                CallStarts(c) /\ calls'[c].owner = h => ~hooks[h].isRefreshing]_vars

\* a refresh call was dropped while the instance's own refresh was pending,
\* and that refresh is still pending
C37_DroppedWhilePending ==
    \E h \in HookIds :
       /\ hooks[h].drops > 0
       /\ hooks[h].isRefreshing /\ hooks[h].isLoading
       /\ Cardinality({c \in CallIds : calls[c].owner = h /\ calls[c].st # "free"}) = 1

\* hook h has a getAggregatedNews call that has not settled
RefreshPending(h) == \E c \in CallIds : calls[c].owner = h /\ calls[c].st = "pending"

C39_InstancesShareRegistry ==
    \A h \in HookIds : hooks[h].mounted => hooks[h].sources = sources

\* in this step get g is called
GetStarts(g) == gets[g].st = "free" /\ gets'[g].st # "free"

\* get d was asked for the same URL of the same client and failed
FailedBefore(g, d) ==
    /\ gets[d].st = "rejected"
    /\ gets[d].client = gets'[g].client /\ gets[d].url = gets'[g].url

\* C34: a get that fails (a status that is not 2xx, a rejected fetch or a
\* body that does not parse) leaves the client's cache as it was, whether it
\* is retried or rejected; every entry of the cache is the body of a 2xx
\* answer, so a get for a URL that has only failed so far goes to the network
C34_FailureNotCached ==
    /\ [](\A s \in Sources : \A url \in DOMAIN clientCache[s] :
             \E g \in GetIds :
                /\ gets[g].client = s /\ gets[g].url = url
                /\ gets[g].st = "resolved" /\ gets[g].lastResponse.kind = "ok"
                /\ clientCache[s][url].data = gets[g].lastResponse.body)
    /\ [][\A g \in GetIds :
             /\ gets[g].st = "http" /\ gets'[g].st \in {"backoff", "rejected"}
                => clientCache' = clientCache
             /\ /\ GetStarts(g)
                /\ \E d \in GetIds : FailedBefore(g, d)
                /\ \A d \in GetIds :
                      gets[d].client = gets'[g].client /\ gets[d].url = gets'[g].url
                      => gets[d].lastResponse.kind # "ok"
                => gets'[g].st = "http" /\ gets'[g].attempts = 1]_vars

\* a get was rejected after an unparsable body, the same request was made
\* again and is on the network; the client's cache has no entry
C34_AskedAgainAfterFailure ==
    \E d, g \in GetIds :
       /\ d < g
       /\ gets[d].st = "rejected" /\ gets[d].lastResponse.kind = "parse"
       /\ gets[g].client = gets[d].client /\ gets[g].url = gets[d].url
       /\ gets[g].st = "http" /\ gets[g].attempts = 1
       /\ clientCache[gets[d].client] = EmptyMap

\* the gets of client s that are granted a slot in this step
GrantedIn(s) ==
    {g \in GetIds : /\ gets'[g].client = s
                    /\ gets'[g].grantedNo # 0
                    /\ gets'[g].grantedNo # gets[g].grantedNo}

\* C35: the request counter of a client stays within 0..maxRequests; every
\* fetch a get issues, the first and each retry, comes with a slot granted to
\* that get in the same step; the counter counts the grants of the window,
\* and when it has reached maxRequests the next grant comes only once time
\* has reached the window's reset time, with the counter restarted
C35_WindowNeverOverdrawn ==
    /\ [](\A s \in Sources :
             rateLimitState[s].requests \in 0..maxRequests(s))
    /\ [](\A g \in GetIds :
             /\ gets[g].attempts = gets[g].slots
             /\ gets[g].st = "http" => gets[g].grantedNo # 0
             /\ gets[g].st = "queued" => gets[g].grantedNo = 0)
    /\ [][/\ \A g \in GetIds :
                gets'[g].attempts # gets[g].attempts
                => /\ gets'[g].attempts = gets[g].attempts + 1
                   /\ g \in GrantedIn(gets'[g].client)
          /\ \A s \in Sources :
                LET rl == rateLimitState[s]
                    n == Cardinality(GrantedIn(s))
                IN /\ rateLimitState'[s].granted = rl.granted + n
                   /\ n = 0 => rateLimitState'[s].requests = rl.requests
                   /\ n > 0 =>
                         IF rateLimitState'[s].resetTime = rl.resetTime
                         THEN rateLimitState'[s].requests = rl.requests + n
                         ELSE /\ now' >= rl.resetTime
                              /\ rateLimitState'[s].resetTime = now' + windowMs
                              /\ rateLimitState'[s].requests = n
                   /\ n > 0 /\ rl.requests >= maxRequests(s) =>
                         /\ now' >= rl.resetTime
                         /\ rateLimitState'[s].requests = n]_vars

\* a retry of a get was held when dev.to's counter stood at maxRequests and
\* was granted the first slot of the next window
C35_HeldUntilReset ==
    \E g \in GetIds :
       /\ gets[g].client = "devto" /\ gets[g].st = "http"
       /\ gets[g].attempts >= 2
       /\ gets[g].grantedNo = maxRequests("devto") + 1
       /\ now >= windowMs
       /\ rateLimitState["devto"].resetTime = now + windowMs

\* the waiters of client s: the held ones, then the queued ones
Waiting(s) ==
    {rateLimitState[s].held[i].get : i \in 1..Len(rateLimitState[s].held)}
    \cup Range(rateLimitState[s].queue)

\* C36: whatever the interleaving of the gets of one client, at most one
\* processQueue loop is running; a waiter is in the queue only while a loop
\* is running; slots are granted in the order of the checkRateLimit calls;
\* and every waiter is granted a slot in the end: time and again no get of
\* the client is left waiting
C36_OneLoopFifoNoneStranded ==
    /\ [](\A s \in Sources :
             /\ Len(rateLimitState[s].held) <= 1
             /\ rateLimitState[s].processing <=> rateLimitState[s].held # <<>>
             /\ rateLimitState[s].queue # <<>> => rateLimitState[s].processing)
    /\ [](\A g \in GetIds :
             gets[g].st = "queued" <=> g \in Waiting(gets[g].client))
    /\ [](\A g, h \in GetIds :
             /\ gets[g].client = gets[h].client
             /\ gets[g].askedNo # 0 /\ gets[g].askedNo < gets[h].askedNo
             /\ gets[h].grantedNo # 0
             => gets[g].grantedNo # 0 /\ gets[g].grantedNo < gets[h].grantedNo)
    /\ []<>(\A s \in Sources : Waiting(s) = {})

\* one get is held by the limiter until the reset time and another one,
\* which asked later, is in the queue behind it
C36_QueuedBehindHeld ==
    \E g, h \in GetIds :
       /\ rateLimitState["devto"].processing
       /\ rateLimitState["devto"].held =
             <<[get |-> g, wakeAt |-> rateLimitState["devto"].resetTime]>>
       /\ rateLimitState["devto"].queue = <<h>>
       /\ gets[g].askedNo < gets[h].askedNo
       /\ now < rateLimitState["devto"].resetTime

====
